---- MODULE Spec2Model ----
(***************************************************************************)
(* A model of shader-formatter: the layout formatter                       *)
(* (Formatter::apply_simple_rules), the lexer and structural parser        *)
(* (parser.rs), the semantic checker (Formatter::check_complex_rules) and  *)
(* the entry point Formatter::format, and the loop of main over the files *)
(* (main.rs).                                                              *)
(*                                                                         *)
(* Text is a sequence of one-character strings.  The model is the          *)
(* non-Windows build: LINE_ENDING is "\n" and the cfg(windows) block of    *)
(* the brace rule is absent.                                               *)
(***************************************************************************)
EXTENDS Integers, Sequences, FiniteSets, TLC

VARIABLES
    config,     \* the Config the Formatter was built with
    alphabet,   \* the words (character sequences) the input texts of this run are made of
    content,    \* the characters of the input read so far
    nread,      \* the number of words read so far
    st,         \* the local variables of apply_simple_rules
    pc,         \* "loop": reading; "done": format returned; "again": formatted twice
    result,     \* what format returned for `content`
    second,     \* what format returned for the text of `result`
    run         \* the run of main: the files, the mode, the position in the loop, the exit status

vars == <<config, alphabet, content, nread, st, pc, result, second, run>>

----------------------------------------------------------------------------
(* Bounds of the exploration *)

\* Every input text of at most MaxLen words of the alphabet is explored.
MaxLen == 4

(* The greatest number of files of a run of main *)
MaxFiles == 2

----------------------------------------------------------------------------
(* Small helpers standing for std library calls *)

Last(s) == s[Len(s)]

Front(s) == SubSeq(s, 1, Len(s) - 1)

Repeat(s, n) ==
    IF n = 0 THEN <<>> ELSE [k \in 1..(n * Len(s)) |-> s[((k - 1) % Len(s)) + 1]]

StripTrailing(out, set) ==
    SubSeq(out, 1, CHOOSE k \in 0..Len(out) :
                       /\ k = 0 \/ out[k] \notin set
                       /\ \A j \in (k + 1)..Len(out) : out[j] \in set)

PopN(out, n) == IF n >= Len(out) THEN <<>> ELSE SubSeq(out, 1, Len(out) - n)

(* A mutant of saturating_sub: plain subtraction *)
plain_sub(a, b) == a - b

saturating_sub(a, b) == IF a > b THEN a - b ELSE 0

----------------------------------------------------------------------------
(* Constants of formatter.rs *)

CHANGES_REQUIRED_ERR_MSG == "changes required"

NOFORMAT_BEGIN_COMMENT == <<" ", "N", "O", "F", "O", "R", "M", "A", "T", "B", "E", "G", "I", "N">>

NOFORMAT_END_COMMENT == <<" ", "N", "O", "F", "O", "R", "M", "A", "T", "E", "N", "D">>

LINE_ENDING == <<"\n">>

Blank == {" ", "\t"}

BlankOrBreak == {" ", "\t", "\n", "\r"}

----------------------------------------------------------------------------
(* Config: an Option<String> is a record, None or Some(text) *)

None == [some |-> FALSE, value |-> <<>>]

Some(v) == [some |-> TRUE, value |-> v]

DefaultConfig ==
    [ max_empty_lines |-> 1,
      new_line_around_braces |-> "After",
      indentation |-> "FourSpaces",
      spaces_in_brackets |-> FALSE,
      variable_case |-> "None",
      function_case |-> "None",
      struct_case |-> "None",
      bool_prefix |-> None,
      int_prefix |-> None,
      float_prefix |-> None,
      global_variable_prefix |-> None,
      force_line_ending |-> None,
      require_docs_on_functions |-> FALSE,
      require_docs_on_structs |-> FALSE,
      require_docs_on_fields |-> FALSE,
      indent_preprocessor |-> FALSE,
      preprocessor_if_creates_nesting |-> FALSE ]

(* A mutant of indentation_text: FourSpaces indents by two spaces *)
indentation_textShort(cfg) ==
    CASE cfg.indentation = "Tab" -> <<"\t">>
      [] cfg.indentation = "TwoSpaces" -> <<" ", " ">>
      [] cfg.indentation = "FourSpaces" -> <<" ", " ">>

indentation_text(cfg) ==
    CASE cfg.indentation = "Tab" -> <<"\t">>
      [] cfg.indentation = "TwoSpaces" -> <<" ", " ">>
      [] cfg.indentation = "FourSpaces" -> <<" ", " ", " ", " ">>

Indent(cfg, n) == Repeat(indentation_text(cfg), n)

----------------------------------------------------------------------------
(* apply_simple_rules: the local variables before the loop *)

InitLocals ==
    [ output |-> <<>>,
      nesting_count |-> 0,
      consecutive_empty_new_line_count |-> 0,
      is_on_new_line |-> TRUE,
      ignore_until_text |-> FALSE,
      stop_ignoring_if_end_of_line |-> FALSE,
      inside_c_comment_count |-> 0,
      inside_comment |-> FALSE,
      last_comment_line |-> <<>>,
      preproc_add_nesting_on_next_line |-> FALSE,
      line_started_with_preprocessor |-> FALSE,
      last_non_space_char_is_backslash |-> FALSE,
      prev_line_ended_with_backslash |-> FALSE,
      last_3_chars |-> <<" ", " ", " ">>,
      inside_no_format |-> FALSE ]

(* A mutant of HandleNewLine: the number of consecutive line breaks is not tested *)
HandleNewLineNoLimit(cfg, s) ==
    LET s1 == [s EXCEPT !.is_on_new_line = TRUE,
                        !.nesting_count =
                            IF s.preproc_add_nesting_on_next_line THEN @ + 1 ELSE @,
                        !.preproc_add_nesting_on_next_line = FALSE]
    IN  IF ~s.ignore_until_text \/ s.stop_ignoring_if_end_of_line
        THEN [s1 EXCEPT !.ignore_until_text = FALSE,
                        !.stop_ignoring_if_end_of_line = FALSE,
                        !.output = @ \o LINE_ENDING \o Indent(cfg, s1.nesting_count),
                        !.consecutive_empty_new_line_count = @ + 1]
        ELSE s1

(* The branch for '\n' *)
HandleNewLine(cfg, s) ==
    LET s1 == [s EXCEPT !.is_on_new_line = TRUE,
                        !.nesting_count =
                            IF s.preproc_add_nesting_on_next_line THEN @ + 1 ELSE @,
                        !.preproc_add_nesting_on_next_line = FALSE]
    IN  IF (~s.ignore_until_text \/ s.stop_ignoring_if_end_of_line)
           /\ s.consecutive_empty_new_line_count <= cfg.max_empty_lines
        THEN [s1 EXCEPT !.ignore_until_text = FALSE,
                        !.stop_ignoring_if_end_of_line = FALSE,
                        !.output = @ \o LINE_ENDING \o Indent(cfg, s1.nesting_count),
                        !.consecutive_empty_new_line_count = @ + 1]
        ELSE s1

(* The first non-blank character of a line (is_on_new_line and c is text) *)
LineStart(cfg, s, c) ==
    LET o1 == IF c = "#"
              THEN IF ~cfg.indent_preprocessor
                   THEN StripTrailing(s.output, Blank)
                   ELSE s.output
              ELSE IF c = "=" THEN s.output \o indentation_text(cfg)
              ELSE s.output
        o2 == IF s.inside_c_comment_count > 0 /\ c = "*" THEN Append(o1, " ") ELSE o1
    IN  [s EXCEPT !.inside_comment = FALSE,
                  !.prev_line_ended_with_backslash = s.last_non_space_char_is_backslash,
                  !.is_on_new_line = FALSE,
                  !.ignore_until_text = FALSE,
                  !.stop_ignoring_if_end_of_line = FALSE,
                  !.consecutive_empty_new_line_count = 0,
                  !.line_started_with_preprocessor = (c = "#"),
                  !.output = o2]

(* A blank at the start of a line: skipped *)
LineStartBlank(s) ==
    [s EXCEPT !.inside_comment = FALSE,
              !.prev_line_ended_with_backslash = s.last_non_space_char_is_backslash]

(* Detection of a C-style comment *)
DetectCComment(s, c) ==
    IF s.last_3_chars[2] = "/" /\ s.last_3_chars[3] = "*" /\ (c = "*" \/ c = "!")
    THEN [s EXCEPT !.inside_c_comment_count = @ + 1]
    ELSE IF s.last_3_chars[2] = "*" /\ s.last_3_chars[3] = "/"
    THEN [s EXCEPT !.inside_c_comment_count = saturating_sub(@, 1)]
    ELSE s

(* A mutant of DetectPreprocessor: #else and #elif do not open a nesting for
   the lines after them *)
DetectPreprocessorNoElse(cfg, s, c) ==
    IF ~(cfg.preprocessor_if_creates_nesting /\ cfg.indent_preprocessor /\ ~s.inside_comment)
    THEN s
    ELSE IF s.last_3_chars[2] = "#" /\ s.last_3_chars[3] = "i" /\ c = "f"
    THEN [s EXCEPT !.preproc_add_nesting_on_next_line = TRUE]
    ELSE IF (s.last_3_chars[1] = "#" /\ s.last_3_chars[2] = "e")
            /\ (   (s.last_3_chars[3] = "n" /\ c = "d")
                \/ (s.last_3_chars[3] = "l" /\ c = "i")
                \/ (s.last_3_chars[3] = "l" /\ c = "s"))
    THEN LET kept == PopN(s.output, 3)
             o1 == StripTrailing(kept, Blank)
             n1 == saturating_sub(s.nesting_count, 1)
         IN  [s EXCEPT !.nesting_count = n1,
                       !.output = o1 \o Indent(cfg, n1) \o s.last_3_chars]
    ELSE s

(* #if / #else / #elif / #endif nesting *)
DetectPreprocessor(cfg, s, c) ==
    IF ~(cfg.preprocessor_if_creates_nesting /\ cfg.indent_preprocessor /\ ~s.inside_comment)
    THEN s
    ELSE IF s.last_3_chars[2] = "#" /\ s.last_3_chars[3] = "i" /\ c = "f"
    THEN [s EXCEPT !.preproc_add_nesting_on_next_line = TRUE]
    ELSE IF (s.last_3_chars[1] = "#" /\ s.last_3_chars[2] = "e")
            /\ (   (s.last_3_chars[3] = "n" /\ c = "d")
                \/ (s.last_3_chars[3] = "l" /\ c = "i")
                \/ (s.last_3_chars[3] = "l" /\ c = "s"))
    THEN LET kept == PopN(s.output, 3)
             o1 == StripTrailing(kept, Blank)
             n1 == saturating_sub(s.nesting_count, 1)
         IN  [s EXCEPT !.nesting_count = n1,
                       !.output = o1 \o Indent(cfg, n1) \o s.last_3_chars,
                       !.preproc_add_nesting_on_next_line =
                           IF c = "i" \/ c = "s" THEN TRUE ELSE @]
    ELSE s

(* Detection of a line comment, and the update of the lookback buffer *)
DetectComment(s, c) ==
    LET s1 == IF s.last_3_chars[2] = "/" /\ s.last_3_chars[3] = "/"
              THEN [s EXCEPT !.inside_comment = TRUE, !.last_comment_line = <<>>]
              ELSE s
    IN  [s1 EXCEPT !.last_3_chars = <<s.last_3_chars[2], s.last_3_chars[3], c>>]

(* A character inside a comment: copied, and compared with the NOFORMAT markers *)
CopyComment(s, c) ==
    LET line == Append(s.last_comment_line, c)
    IN  [s EXCEPT !.output = Append(@, c),
                  !.last_comment_line = line,
                  !.inside_no_format =
                      IF line = NOFORMAT_BEGIN_COMMENT THEN TRUE
                      ELSE IF line = NOFORMAT_END_COMMENT THEN FALSE
                      ELSE @]

(* A character inside a NOFORMAT region: copied *)
CopyNoFormat(s, c) == [s EXCEPT !.output = Append(@, c)]

(* is_text_starts_with_comment: the text without its blanks starts with "//" *)
is_text_starts_with_comment(text) ==
    LET kept == SelectSeq(text, LAMBDA ch : ch \notin Blank)
    IN  Len(kept) >= 2 /\ kept[1] = "/" /\ kept[2] = "/"

(* The text of `out` after its last line break *)
LastLineStart(out, i) ==
    CHOOSE k \in 1..(i + 1) :
        /\ k = 1 \/ out[k - 1] = "\n"
        /\ \A j \in k..i : out[j] # "\n"

LineBefore(out) == SubSeq(out, LastLineStart(out, Len(out)), Len(out))

(* The loop over the previous line that looks for a trailing line comment and
   puts the brace before it.  a: output, copy_chars, found_comment,
   chars_to_remove, last_empty_chars_count, skipped_chars_count.
   ScanStep is one iteration, on the character line[i]. *)
ScanStep(line, i, a) ==
      LET ch == line[i]
          a1 == IF a.copy_chars THEN [a EXCEPT !.output = Append(@, ch)] ELSE a
          hit == ch = "/" /\ i < Len(line) /\ line[i + 1] = "/"
          remove == a1.chars_to_remove + (Len(line) - a1.skipped_chars_count)
                        + saturating_sub(a1.last_empty_chars_count, 1)
          a2 == IF hit
                THEN [a1 EXCEPT !.found_comment = TRUE,
                                !.chars_to_remove = remove,
                                !.output = PopN(a1.output, remove) \o <<" ", "{", " ", "/">>,
                                !.copy_chars = TRUE]
                ELSE a1
          a3 == [a2 EXCEPT !.last_empty_chars_count = IF ch \in Blank THEN @ + 1 ELSE 0,
                           !.skipped_chars_count = @ + 1]
      IN  a3

(* The iterations on line[lo..hi], in order: the range is halved to keep the
   evaluation shallow *)
RECURSIVE ScanRange(_, _, _, _)
ScanRange(line, lo, hi, a) ==
    IF lo = hi THEN ScanStep(line, lo, a)
    ELSE LET mid == (lo + hi) \div 2
             a1 == ScanRange(line, lo, mid, a)
         IN  IF a1.skipped_chars_count >= 0 THEN ScanRange(line, mid + 1, hi, a1) ELSE a1

ScanLineBefore(line, i, a) ==
    IF i > Len(line) THEN a ELSE ScanRange(line, i, Len(line), a)

(* A mutant of OpenBraceAfter: the brace is joined to the text before it
   without the space *)
OpenBraceAfterNoSpace(cfg, s) ==
    LET o1 == StripTrailing(s.output, BlankOrBreak)
        n1 == s.nesting_count + 1
    IN  [s EXCEPT !.nesting_count = n1,
                  !.is_on_new_line = TRUE,
                  !.output = o1 \o <<"{">> \o LINE_ENDING \o Indent(cfg, n1),
                  !.consecutive_empty_new_line_count = @ + 1,
                  !.ignore_until_text = TRUE]

(* A mutant of OpenBraceBefore: the line after the brace is not indented
   one level deeper *)
OpenBraceBeforeSameDepth(cfg, s) ==
    LET o1 == StripTrailing(s.output, BlankOrBreak)
        o3 == o1 \o LINE_ENDING \o Indent(cfg, s.nesting_count) \o <<"{">>
    IN  [s EXCEPT !.is_on_new_line = TRUE,
                  !.nesting_count = @ + 1,
                  !.output = o3 \o LINE_ENDING \o Indent(cfg, s.nesting_count),
                  !.consecutive_empty_new_line_count = @ + 1,
                  !.ignore_until_text = TRUE]

(* '{' with NewLineAroundOpenBraceRule::After *)
OpenBraceAfter(cfg, s) ==
    LET o1 == StripTrailing(s.output, BlankOrBreak)
        chars_to_remove == Len(s.output) - Len(o1)
        text_starts_with_backslash == o1 # <<>> /\ Last(o1) = "\\"
        o2 == IF s.prev_line_ended_with_backslash /\ text_starts_with_backslash
              THEN StripTrailing(Front(o1), BlankOrBreak)
              ELSE o1
        line_before == LineBefore(o2)
        scan == ScanLineBefore(line_before, 1,
                    [output |-> o2, copy_chars |-> FALSE, found_comment |-> FALSE,
                     chars_to_remove |-> chars_to_remove,
                     last_empty_chars_count |-> 0, skipped_chars_count |-> 0])
        o3 == IF ~is_text_starts_with_comment(line_before)
              THEN IF scan.found_comment THEN scan.output ELSE scan.output \o <<" ", "{">>
              ELSE o2 \o LINE_ENDING \o Indent(cfg, s.nesting_count) \o <<"{">>
        n1 == s.nesting_count + 1
    IN  IF ~s.prev_line_ended_with_backslash
        THEN [s EXCEPT !.nesting_count = n1,
                       !.is_on_new_line = TRUE,
                       !.output = o3 \o LINE_ENDING \o Indent(cfg, n1),
                       !.consecutive_empty_new_line_count = @ + 1,
                       !.ignore_until_text = TRUE]
        ELSE [s EXCEPT !.nesting_count = n1,
                       !.output = o3,
                       !.ignore_until_text = TRUE]

(* '{' with NewLineAroundOpenBraceRule::Before *)
OpenBraceBefore(cfg, s) ==
    LET o1 == StripTrailing(s.output, BlankOrBreak)
        o2 == IF s.prev_line_ended_with_backslash /\ o1 # <<>> /\ Last(o1) # "\\"
              THEN Append(o1, "\\")
              ELSE o1
        o3 == o2 \o LINE_ENDING \o Indent(cfg, s.nesting_count) \o <<"{">>
        o4 == IF s.prev_line_ended_with_backslash THEN Append(o3, "\\") ELSE o3
        n1 == s.nesting_count + 1
    IN  [s EXCEPT !.is_on_new_line = TRUE,
                  !.nesting_count = n1,
                  !.output = o4 \o LINE_ENDING \o Indent(cfg, n1),
                  !.consecutive_empty_new_line_count = @ + 1,
                  !.ignore_until_text = TRUE]

OpenBrace(cfg, s) ==
    IF cfg.new_line_around_braces = "After"
    THEN OpenBraceAfter(cfg, s)
    ELSE OpenBraceBefore(cfg, s)

(* '}' *)
CloseBrace(cfg, s) ==
    LET n1 == saturating_sub(s.nesting_count, 1)
        o1 == StripTrailing(s.output, BlankOrBreak)
        o2 == IF ~s.line_started_with_preprocessor
              THEN o1 \o LINE_ENDING \o Indent(cfg, n1)
              ELSE Append(o1, " ")
    IN  [s EXCEPT !.nesting_count = n1, !.output = Append(o2, "}")]

(* A mutant of OpenBracket: the bracket does not add to the nesting *)
OpenBracketFlat(cfg, s, c) ==
    [s EXCEPT !.output = IF cfg.spaces_in_brackets THEN @ \o <<c, " ">> ELSE Append(@, c),
              !.ignore_until_text = TRUE,
              !.stop_ignoring_if_end_of_line = TRUE]

(* '[' and '(' *)
OpenBracket(cfg, s, c) ==
    [s EXCEPT !.output = IF cfg.spaces_in_brackets THEN @ \o <<c, " ">> ELSE Append(@, c),
              !.ignore_until_text = TRUE,
              !.stop_ignoring_if_end_of_line = TRUE,
              !.nesting_count = @ + 1]

(* ']' and ')' *)
CloseBracket(cfg, s, c) ==
    LET o1 == StripTrailing(s.output, BlankOrBreak)
        nothing_in_brackets == o1 # <<>> /\ Last(o1) \in {"<", "[", "("}
        o2 == IF cfg.spaces_in_brackets /\ ~nothing_in_brackets THEN Append(o1, " ") ELSE o1
    IN  [s EXCEPT !.output = Append(o2, c),
                  !.nesting_count = saturating_sub(@, 1)]

(* Any other character: copied (the inner test for ')' can never hold there) *)
CopyChar(s, c) == [s EXCEPT !.output = Append(@, c)]

(* A character outside comments and NOFORMAT regions *)
FormatChar(cfg, s, c) ==
    LET s1 == IF c # " " THEN [s EXCEPT !.last_non_space_char_is_backslash = (c = "\\")] ELSE s
    IN  IF c = "{" THEN OpenBrace(cfg, s1)
        ELSE IF c = "}" THEN CloseBrace(cfg, s1)
        ELSE IF c = "[" \/ c = "(" THEN OpenBracket(cfg, s1, c)
        ELSE IF c = "]" \/ c = ")" THEN CloseBracket(cfg, s1, c)
        ELSE CopyChar(s1, c)

(* The comment and preprocessor detection that precedes the copy of a character *)
Detect(cfg, s, c) == DetectComment(DetectPreprocessor(cfg, DetectCComment(s, c), c), c)

(* What follows the start-of-line and ignore-until-text tests *)
Scan(cfg, s, c) ==
    LET s1 == Detect(cfg, s, c)
    IN  IF s1.inside_comment \/ s1.inside_c_comment_count > 0 THEN CopyComment(s1, c)
        ELSE IF s1.inside_no_format THEN CopyNoFormat(s1, c)
        ELSE FormatChar(cfg, s1, c)

(* The ignore_until_text test *)
IgnoreUntilText(cfg, s, c) ==
    IF s.ignore_until_text
    THEN IF c \notin Blank
         THEN Scan(cfg, [s EXCEPT !.ignore_until_text = FALSE,
                                  !.stop_ignoring_if_end_of_line = FALSE], c)
         ELSE s
    ELSE Scan(cfg, s, c)

(* One iteration of `for _char in content.chars()` *)
LoopBody(cfg, s, c) ==
    IF c = "\r" THEN s
    ELSE IF c = "\n" THEN HandleNewLine(cfg, s)
    ELSE IF s.is_on_new_line
         THEN IF c \notin Blank
              THEN IgnoreUntilText(cfg, LineStart(cfg, s, c), c)
              ELSE LineStartBlank(s)
         ELSE IgnoreUntilText(cfg, s, c)

(* The iterations of the loop on text[lo..hi], in order: the range is halved
   to keep the evaluation shallow *)
RECURSIVE RunRange(_, _, _, _, _)
RunRange(cfg, s, text, lo, hi) ==
    IF lo = hi THEN LoopBody(cfg, s, text[lo])
    ELSE LET mid == (lo + hi) \div 2
             s1 == RunRange(cfg, s, text, lo, mid)
         IN  IF s1.nesting_count >= 0 THEN RunRange(cfg, s1, text, mid + 1, hi) ELSE s1

RunLoop(cfg, s, text, i) ==
    IF i > Len(text) THEN s ELSE RunRange(cfg, s, text, i, Len(text))

(* Results: Ok(text) or Err(msg). A message is the sequence of the pieces
   format! joins: the literal pieces of the format string and its arguments *)
Ok(text) == [ok |-> TRUE, text |-> text, msg |-> <<>>]

Err(msg) == [ok |-> FALSE, text |-> <<>>, msg |-> msg]

Lit(str) == [lit |-> str, arg |-> <<>>]

Arg(text) == [lit |-> "", arg |-> text]

NoFormatError ==
    << Arg(NOFORMAT_BEGIN_COMMENT), Lit(" was found but no matching"),
       Arg(NOFORMAT_END_COMMENT), Lit(" detected") >>

(* What apply_simple_rules returns after the loop *)
ReturnSimple(s) == IF s.inside_no_format THEN Err(NoFormatError) ELSE Ok(s.output)

apply_simple_rules(cfg, text) == ReturnSimple(RunLoop(cfg, InitLocals, text, 1))

----------------------------------------------------------------------------
(* parser.rs: token_parser. A token is a record: its kind, the text it holds
   and, for a TypeName, the Type. *)

Digits == {"0", "1", "2", "3", "4", "5", "6", "7", "8", "9"}

LowerCase == <<"a", "b", "c", "d", "e", "f", "g", "h", "i", "j", "k", "l", "m", "n", "o", "p", "q", "r", "s", "t", "u", "v", "w", "x", "y", "z">>

UpperCase == <<"A", "B", "C", "D", "E", "F", "G", "H", "I", "J", "K", "L", "M", "N", "O", "P", "Q", "R", "S", "T", "U", "V", "W", "X", "Y", "Z">>

Letters == {LowerCase[i] : i \in 1..26} \cup {UpperCase[i] : i \in 1..26}

(* char::is_whitespace, on the characters of the model *)
Whitespace == {" ", "\t", "\n", "\r"}

(* `pat` stands in `text` at position i *)
MatchAt(text, i, pat) ==
    i + Len(pat) - 1 <= Len(text) /\ SubSeq(text, i, i + Len(pat) - 1) = pat

(* one_of(set).repeated() from position i: the position after the run *)
SkipSet(text, i, set) ==
    IF i > Len(text) THEN i
    ELSE CHOOSE k \in i..(Len(text) + 1) :
             /\ k > Len(text) \/ text[k] \notin set
             /\ \A j \in i..(k - 1) : text[j] \in set

(* any().and_is(stop.not()).repeated() from position i: the first position at
   which one of the patterns `stops` stands, or the end of the text *)
SkipTo(text, i, stops) ==
    IF i > Len(text) THEN i
    ELSE CHOOSE k \in i..(Len(text) + 1) :
             /\ k > Len(text) \/ \E p \in stops : MatchAt(text, k, p)
             /\ \A j \in i..(k - 1) : \A p \in stops : ~MatchAt(text, j, p)

(* p.padded(): the whitespace after (or before) a pattern is skipped *)
Padded(text, i) == SkipSet(text, i, Whitespace)

Token(kind, text, type) == [kind |-> kind, text |-> text, type |-> type]

(* The outcome of one parser at position i: the token and the position after it *)
Lexed(kind, text, type, next) ==
    [ok |-> TRUE, tok |-> Token(kind, text, type), next |-> next]

NoToken == [ok |-> FALSE, tok |-> Token("None", <<>>, "None"), next |-> 0]

(* text::int(10): a digit other than 0 and the digits after it, or a single 0;
   the position after it, 0 when there is none *)
int(text, i) ==
    IF i > Len(text) \/ text[i] \notin Digits THEN 0
    ELSE IF text[i] = "0" THEN i + 1
    ELSE SkipSet(text, i + 1, Digits)

(* let float, let integer: float is tried first, so that an integer is an
   int that no `.` follows *)
number(text, i) ==
    LET j == IF text[i] = "-" THEN i + 1 ELSE i
        e == int(text, j)
    IN  IF e = 0 THEN NoToken
        ELSE IF e <= Len(text) /\ text[e] = "."
        THEN LET f == SkipSet(text, e + 1, Digits)
             IN  Lexed("Float", SubSeq(text, i, f - 1), "None", Padded(text, f))
        ELSE Lexed("Integer", SubSeq(text, i, e - 1), "None", Padded(text, e))

(* let c_comment, let simple_comment *)
comment(text, i) ==
    LET body == i + 3
        close == SkipTo(text, body, {<<"*", "/">>})
        from == Padded(text, i + 2)
        to == SkipTo(text, from, {<<"\n">>})
    IN  IF (MatchAt(text, i, <<"/", "*", "*">>) \/ MatchAt(text, i, <<"/", "*", "!">>)) /\ close <= Len(text)
        THEN Lexed("Comment", SubSeq(text, body, close - 1), "None", close + 2)
        ELSE IF MatchAt(text, i, <<"/", "/">>)
        THEN Lexed("Comment", SubSeq(text, from, to - 1), "None", Padded(text, to))
        ELSE NoToken

(* let preprocessor_if, preprocessor_else, preprocessor_end, preprocessor_other:
   the rest of the line belongs to the directive, the whitespace before it
   (line breaks too) being skipped first *)
preprocessor(text, i) ==
    LET RestOfLine(from, stops) == Padded(text, SkipTo(text, Padded(text, from), stops))
        line == {<<"\n">>}
        after_if == Padded(text, i + 3)
        defined == IF MatchAt(text, after_if, <<"d", "e", "f", "i", "n", "e", "d">>) THEN after_if + 7 ELSE after_if
        name == SkipSet(text, i + 1, Letters \cup Digits \cup {"_"})
    IN  IF MatchAt(text, i, <<"#", "i", "f">>)
        THEN LET e == RestOfLine(defined, line)
             IN  Lexed("Preprocessor", SubSeq(text, i, e - 1), "None", e)
        ELSE IF MatchAt(text, i, <<"#", "e", "l", "s", "e">>) \/ MatchAt(text, i, <<"#", "e", "l", "i", "f">>)
        THEN LET e == RestOfLine(Padded(text, i + 5), line)
             IN  Lexed("Preprocessor", SubSeq(text, i, e - 1), "None", e)
        ELSE IF MatchAt(text, i, <<"#", "e", "n", "d", "i", "f">>)
        THEN Lexed("Preprocessor", SubSeq(text, i, i + 5), "None", i + 6)
        ELSE IF /\ text[i] = "#"
                /\ i + 1 <= Len(text)
                /\ text[i + 1] \in Letters \cup {"_"}
        THEN LET e == RestOfLine(Padded(text, name), line \cup {<<"s", "t", "r", "u", "c", "t">>, <<"l", "a", "y", "o", "u", "t">>})
             IN  Lexed("Preprocessor", SubSeq(text, i, e - 1), "None", e)
        ELSE NoToken

(* let single_char_operator, let multi_char_operator *)
operator(text, i) ==
    LET e == SkipSet(text, i, {"+", "*", "-", "/", "!", "=", "%", "|", "~", "&"})
    IN  IF e > i THEN Lexed("Op", SubSeq(text, i, e - 1), "None", e)
        ELSE IF MatchAt(text, i, <<">", "=">>) \/ MatchAt(text, i, <<"<", "=">>)
        THEN Lexed("Op", SubSeq(text, i, i + 1), "None", i + 2)
        ELSE NoToken

(* let ctrl *)
ctrl(text, i) ==
    IF text[i] \in {"(", ")", "[", "]", "{", "}", ";", ",", ":", "<", ">", "."}
    THEN Lexed("Ctrl", <<text[i]>>, "None", i + 1)
    ELSE NoToken

(* let ident: text::ascii::ident() and the table of the reserved names *)
ident(text, i) ==
    LET e == SkipSet(text, i + 1, Letters \cup Digits \cup {"_"})
        id == SubSeq(text, i, e - 1)
        TypeName(t) == Lexed("TypeName", id, t, e)
    IN  IF text[i] \notin Letters \cup {"_"} THEN NoToken
        ELSE IF id \in {<<"t", "r", "u", "e">>, <<"f", "a", "l", "s", "e">>} THEN Lexed("Bool", id, "None", e)
        ELSE IF id = <<"v", "o", "i", "d">> THEN TypeName("Void")
        ELSE IF id \in {<<"f", "l", "o", "a", "t">>, <<"h", "a", "l", "f">>, <<"d", "o", "u", "b", "l", "e">>} THEN TypeName("Float")
        ELSE IF id \in {<<"i", "n", "t">>, <<"u", "i", "n", "t">>, <<"d", "w", "o", "r", "d">>} THEN TypeName("Integer")
        ELSE IF id = <<"b", "o", "o", "l">> THEN TypeName("Bool")
        ELSE IF id \in {<<"f", "l", "o", "a", "t", "4">>, <<"v", "e", "c", "4">>, <<"f", "l", "o", "a", "t", "2">>, <<"v", "e", "c", "2">>, <<"f", "l", "o", "a", "t", "3">>, <<"v", "e", "c", "3">>,
                        <<"u", "i", "n", "t", "4">>, <<"u", "v", "e", "c", "4">>, <<"u", "i", "n", "t", "3">>, <<"u", "v", "e", "c", "3">>, <<"u", "i", "n", "t", "2">>, <<"u", "v", "e", "c", "2">>}
        THEN TypeName("Vector")
        ELSE IF id \in {<<"f", "l", "o", "a", "t", "4", "x", "4">>, <<"m", "a", "t", "4", "x", "4">>, <<"f", "l", "o", "a", "t", "3", "x", "3">>, <<"m", "a", "t", "3", "x", "3">>,
                        <<"f", "l", "o", "a", "t", "2", "x", "2">>, <<"m", "a", "t", "2", "x", "2">>}
        THEN TypeName("Matrix")
        ELSE IF id \in {<<"T", "e", "x", "t", "u", "r", "e", "2", "D">>, <<"s", "a", "m", "p", "l", "e", "r", "2", "D">>} THEN TypeName("Texture")
        ELSE IF id \in {<<"S", "a", "m", "p", "l", "e", "r", "S", "t", "a", "t", "e">>, <<"S", "a", "m", "p", "l", "e", "r", "C", "o", "m", "p", "a", "r", "i", "s", "o", "n", "S", "t", "a", "t", "e">>} THEN TypeName("Sampler")
        ELSE IF id = <<"r", "e", "t", "u", "r", "n">> THEN Lexed("Keyword", id, "None", e)
        ELSE Lexed("Ident", id, "None", e)

(* a.or(b): the outcome of the first of the parsers that accepts *)
first_of(parsers) ==
    parsers[CHOOSE k \in 1..Len(parsers) :
                parsers[k].ok /\ \A j \in 1..(k - 1) : ~parsers[j].ok]

(* let token *)
token(text, i) ==
    first_of(<< number(text, i), comment(text, i), preprocessor(text, i),
                operator(text, i), ctrl(text, i), ident(text, i),
                Lexed("Other", <<text[i]>>, "None", i + 1) >>)

(* token.padded().repeated(): the text is walked by position, s.next being
   the position at which the token before, and the whitespace after it, ended;
   a token is read at position k when k is that position *)
LexStep(text, k, s) ==
    LET then(t) == [next |-> Padded(text, t.next), tokens |-> Append(s.tokens, t.tok)]
    IN  IF k # s.next THEN s ELSE then(token(text, k))

(* The positions lo..hi, in order: the range is halved to keep the evaluation
   shallow, and a half in which no token starts is passed over *)
RECURSIVE LexRange(_, _, _, _)
LexRange(text, lo, hi, s) ==
    IF lo = hi THEN LexStep(text, lo, s)
    ELSE LET mid == (lo + hi) \div 2
             s1 == LexRange(text, lo, mid, s)
         IN  IF s1.next > hi THEN s1 ELSE LexRange(text, mid + 1, hi, s1)

(* The tokens from position i on *)
tokens_from(text, i) ==
    IF i > Len(text) THEN <<>>
    ELSE LexRange(text, i, Len(text), [next |-> Padded(text, i), tokens |-> <<>>]).tokens

(* parse(): a token ends only with the whitespace after it skipped, so the
   whole text is consumed unless it holds whitespace and no token; then the
   parser stops at offset 0 and reports the character it found there *)
token_parser(text) ==
    IF text # <<>> /\ Padded(text, 1) > Len(text)
    THEN [ok |-> FALSE, tokens |-> <<>>, offset |-> 0]
    ELSE [ok |-> TRUE, tokens |-> tokens_from(text, 1), offset |-> 0]

(* value.parse() of let integer, on a slice of an optional `-` and the digits
   of text::int: Ok exactly when the number is within the range of i64 *)
parse_i64(value) ==
    LET negative == value[1] = "-"
        digits == IF negative THEN Tail(value) ELSE value
        limit == IF negative THEN <<"9", "2", "2", "3", "3", "7", "2", "0", "3", "6", "8", "5", "4", "7", "7", "5", "8", "0", "8">> ELSE <<"9", "2", "2", "3", "3", "7", "2", "0", "3", "6", "8", "5", "4", "7", "7", "5", "8", "0", "7">>
        digit(c) == CHOOSE d \in 0..9 : <<"0", "1", "2", "3", "4", "5", "6", "7", "8", "9">>[d + 1] = c
        below(a, b) == \E i \in 1..Len(a) :
                           /\ digit(a[i]) < digit(b[i])
                           /\ \A j \in 1..(i - 1) : a[j] = b[j]
    IN  \/ Len(digits) < Len(limit)
        \/ Len(digits) = Len(limit) /\ (digits = limit \/ below(digits, limit))

(* The unwrap() of let integer panics: the text has an integer token whose
   value.parse() is an Err. (The value.parse() of let float has no Err on a
   slice of digits and a dot.) *)
token_parser_panics(text) ==
    LET overflow(toks) == \E k \in 1..Len(toks) :
                              toks[k].kind = "Integer" /\ ~parse_i64(toks[k].text)
    IN  overflow(tokens_from(text, 1))

----------------------------------------------------------------------------
(* parser.rs: complex_token_parser. A complex token is a record with the
   fields of all four variants; the ones a variant does not have are empty. *)

ComplexToken(kind, type, name, docs, members, tok) ==
    [kind |-> kind, type |-> type, name |-> name, docs |-> docs,
     members |-> members, token |-> tok]

(* select!/just on the token at position i *)
IsKind(toks, i, kind) == i <= Len(toks) /\ toks[i].kind = kind

Is(toks, i, kind, text) == IsKind(toks, i, kind) /\ toks[i].text = text

(* comment.repeated().collect() and concat(): the position after the comments
   and their texts joined *)
RECURSIVE comments(_, _, _)
comments(toks, i, docs) ==
    IF IsKind(toks, i, "Comment") THEN comments(toks, i + 1, docs \o toks[i].text)
    ELSE [next |-> i, docs |-> docs]

(* none_of(Token::Ctrl(';')).repeated(): the position of the next `;` *)
RECURSIVE until_semicolon(_, _)
until_semicolon(toks, i) ==
    IF i > Len(toks) \/ Is(toks, i, "Ctrl", <<";">>) THEN i ELSE until_semicolon(toks, i + 1)

(* std_var_type.or(ident.map(|_| Type::Custom)): the Type at position i,
   "None" when the token is neither *)
type_or_custom(toks, i) ==
    IF IsKind(toks, i, "TypeName") THEN toks[i].type
    ELSE IF IsKind(toks, i, "Ident") THEN "Custom"
    ELSE "None"

(* let layout, under or_not(): the position after it, i when it does not match *)
layout(toks, i) ==
    LET a == i + 2
        b == IF IsKind(toks, a, "Ident") /\ Is(toks, a + 1, "Ctrl", <<",">>) THEN a + 2 ELSE a
    IN  IF /\ Is(toks, i, "Ident", <<"l", "a", "y", "o", "u", "t">>)
           /\ Is(toks, i + 1, "Ctrl", <<"(">>)
           /\ Is(toks, b, "Ident", <<"b", "i", "n", "d", "i", "n", "g">>)
           /\ Is(toks, b + 1, "Op", <<"=">>)
           /\ IsKind(toks, b + 2, "Integer")
           /\ Is(toks, b + 3, "Ctrl", <<")">>)
        THEN b + 4
        ELSE i

(* just(c).or_not() at position k: the position after it *)
or_not(toks, k, c) == IF Is(toks, k, "Ctrl", <<c>>) THEN k + 1 ELSE k

NoItem ==
    [type |-> "None", name |-> <<>>, docs |-> <<>>, is_using_semantic |-> FALSE]

(* let field *)
field(toks, i) ==
    LET at(docs, t) ==
            LET array == Is(toks, t + 2, "Ctrl", <<"[">>)
                semi == until_semicolon(toks, IF array THEN t + 3 ELSE t + 2)
            IN  IF type_or_custom(toks, t) # "None" /\ IsKind(toks, t + 1, "Ident")
                   /\ semi <= Len(toks)
                THEN [ok |-> TRUE, next |-> semi + 1,
                      item |-> [type |-> IF array THEN "Array" ELSE type_or_custom(toks, t),
                                name |-> toks[t + 1].text, docs |-> docs,
                                is_using_semantic |-> FALSE]]
                ELSE [ok |-> FALSE, next |-> i, item |-> NoItem]
    IN  at(comments(toks, i, <<>>).docs, comments(toks, i, <<>>).next)

(* let argument = std_argument.or(argument_semantic).or(custom_argument) *)
argument(toks, i) ==
    LET at(m) ==
            LET Closes(k) == Is(toks, k, "Ctrl", <<",">>) \/ Is(toks, k, "Ctrl", <<")">>)
                Item(type, semantic) ==
                    [type |-> type, name |-> toks[m + 1].text, docs |-> <<>>,
                     is_using_semantic |-> semantic]
            IN  IF IsKind(toks, m, "TypeName") /\ IsKind(toks, m + 1, "Ident") /\ Closes(m + 2)
                THEN [ok |-> TRUE, next |-> m + 3, item |-> Item(toks[m].type, FALSE)]
                ELSE IF /\ IsKind(toks, m, "TypeName") /\ IsKind(toks, m + 1, "Ident")
                        /\ Is(toks, m + 2, "Ctrl", <<":">>) /\ IsKind(toks, m + 3, "Ident")
                        /\ Closes(m + 4)
                THEN [ok |-> TRUE, next |-> m + 5, item |-> Item(toks[m].type, TRUE)]
                ELSE IF IsKind(toks, m, "Ident") /\ IsKind(toks, m + 1, "Ident") /\ Closes(m + 2)
                THEN [ok |-> TRUE, next |-> m + 3, item |-> Item("Custom", FALSE)]
                ELSE [ok |-> FALSE, next |-> i, item |-> NoItem]
    IN  at(IF \E w \in {<<"i", "n">>, <<"o", "u", "t">>, <<"u", "n", "i", "f", "o", "r", "m">>} : Is(toks, i, "Ident", w)
           THEN i + 1 ELSE i)

(* field.repeated().collect() and argument.repeated().collect(): p is "field"
   or "argument" *)
RECURSIVE repeated(_, _, _, _)
repeated(p, toks, i, acc) ==
    LET then(r) == IF r.ok THEN repeated(p, toks, r.next, Append(acc, r.item))
                   ELSE [next |-> i, items |-> acc]
    IN  then(IF p = "field" THEN field(toks, i) ELSE argument(toks, i))

NoComplexToken ==
    [ok |-> FALSE, next |-> 0,
     ct |-> ComplexToken("None", "None", <<>>, <<>>, <<>>, Token("None", <<>>, "None"))]

(* let _struct *)
struct(toks, i) ==
    LET readonly(l) == IF Is(toks, l, "Ident", <<"r", "e", "a", "d", "o", "n", "l", "y">>) THEN l + 1 ELSE l
        at(docs, r, fields) ==
            IF /\ \E w \in {<<"s", "t", "r", "u", "c", "t">>, <<"u", "n", "i", "f", "o", "r", "m">>, <<"b", "u", "f", "f", "e", "r">>} : Is(toks, r, "Ident", w)
               /\ IsKind(toks, r + 1, "Ident")
               /\ Is(toks, r + 2, "Ctrl", <<"{">>)
            THEN [ok |-> TRUE,
                  next |-> or_not(toks, fields.next, "}"),
                  ct |-> ComplexToken("Struct", "None", toks[r + 1].text, docs, fields.items,
                                      Token("None", <<>>, "None"))]
            ELSE NoComplexToken
        from(docs, r) == at(docs, r, repeated("field", toks, r + 3, <<>>))
    IN  from(comments(toks, i, <<>>).docs,
             readonly(layout(toks, comments(toks, i, <<>>).next)))

(* let func_return_type, let function *)
function(toks, i) ==
    LET at(docs, t, args) ==
            IF /\ type_or_custom(toks, t) # "None"
               /\ IsKind(toks, t + 1, "Ident")
               /\ Is(toks, t + 2, "Ctrl", <<"(">>)
            THEN [ok |-> TRUE,
                  next |-> or_not(toks, args.next, ")"),
                  ct |-> ComplexToken("Function", type_or_custom(toks, t), toks[t + 1].text,
                                      docs, args.items, Token("None", <<>>, "None"))]
            ELSE NoComplexToken
        from(docs, t) == at(docs, t, repeated("argument", toks, t + 3, <<>>))
    IN  from(comments(toks, i, <<>>).docs, comments(toks, i, <<>>).next)

(* let variable_declaration *)
variable_declaration(toks, i) ==
    LET array == Is(toks, i + 2, "Ctrl", <<"[">>)
        after_name == IF array THEN i + 3 ELSE i + 2
        semi == until_semicolon(toks, IF Is(toks, after_name, "Op", <<"=">>)
                                      THEN after_name + 1 ELSE after_name)
    IN  IF IsKind(toks, i, "TypeName") /\ IsKind(toks, i + 1, "Ident")
        THEN [ok |-> TRUE,
              next |-> or_not(toks, semi, ";"),
              ct |-> ComplexToken("VariableDeclaration",
                                  IF array THEN "Array" ELSE toks[i].type,
                                  toks[i + 1].text, <<>>, <<>>, Token("None", <<>>, "None"))]
        ELSE NoComplexToken

(* let output *)
output(toks, i) ==
    first_of(<< struct(toks, i), function(toks, i), variable_declaration(toks, i),
                [ok |-> TRUE, next |-> i + 1,
                 ct |-> ComplexToken("Other", "None", <<>>, <<>>, <<>>, toks[i])] >>)

(* output.repeated().collect(): the complex tokens from position i on *)
ParseStep(toks, k, s) ==
    LET then(o) == [next |-> o.next, cts |-> Append(s.cts, o.ct)]
    IN  IF k # s.next THEN s ELSE then(output(toks, k))

(* The tokens lo..hi, in order: s.next is the token at which the complex token
   before ended; the range is halved to keep the evaluation shallow *)
RECURSIVE ParseRange(_, _, _, _)
ParseRange(toks, lo, hi, s) ==
    IF lo = hi THEN ParseStep(toks, lo, s)
    ELSE LET mid == (lo + hi) \div 2
             s1 == ParseRange(toks, lo, mid, s)
         IN  IF s1.next > hi THEN s1 ELSE ParseRange(toks, mid + 1, hi, s1)

complex_tokens_from(toks, i) ==
    IF i > Len(toks) THEN <<>>
    ELSE ParseRange(toks, i, Len(toks), [next |-> i, cts |-> <<>>]).cts

complex_token_parser(toks) == complex_tokens_from(toks, 1)

----------------------------------------------------------------------------
(* Case conversion (convert_case::Casing::to_case): the name is split into
   words at `_` and `-`, between a lower-case and an upper-case letter and
   between a letter and a digit; the words are joined again as the case asks. *)

to_lowercase(text) ==
    [i \in 1..Len(text) |->
        IF \E k \in 1..26 : UpperCase[k] = text[i]
        THEN LowerCase[CHOOSE k \in 1..26 : UpperCase[k] = text[i]]
        ELSE text[i]]

to_uppercase(text) ==
    [i \in 1..Len(text) |->
        IF \E k \in 1..26 : LowerCase[k] = text[i]
        THEN UpperCase[CHOOSE k \in 1..26 : LowerCase[k] = text[i]]
        ELSE text[i]]

(* The words of name[i..]: cur is the word being read, acc the words before it *)
RECURSIVE split(_, _, _, _)
split(name, i, cur, acc) ==
    LET flushed == IF cur = <<>> THEN acc ELSE Append(acc, cur)
        c == name[i]
        lower_upper == Last(cur) = to_lowercase(<<Last(cur)>>)[1] /\ Last(cur) \in Letters
                       /\ c = to_uppercase(<<c>>)[1] /\ c \in Letters
        letter_digit == Last(cur) \in Letters /\ c \in Digits
    IN  IF i > Len(name) THEN flushed
        ELSE IF c \in {"_", "-"} THEN split(name, i + 1, <<>>, flushed)
        ELSE IF cur # <<>> /\ (lower_upper \/ letter_digit)
        THEN split(name, i + 1, <<c>>, flushed)
        ELSE split(name, i + 1, Append(cur, c), acc)

(* The words ws[i..] joined, each after the first preceded by sep, word i
   written as Style(i, word) writes it *)
RECURSIVE join(_, _, _, _)
join(ws, i, sep, case) ==
    LET w == ws[i]
        capital == to_uppercase(<<w[1]>>) \o to_lowercase(SubSeq(w, 2, Len(w)))
        styled == CASE case = "Camel" -> IF i = 1 THEN to_lowercase(w) ELSE capital
                    [] case = "Pascal" -> capital
                    [] case = "Snake" -> to_lowercase(w)
                    [] case = "UpperSnake" -> to_uppercase(w)
    IN  IF i > Len(ws) THEN <<>>
        ELSE (IF i > 1 THEN sep ELSE <<>>) \o styled \o join(ws, i + 1, sep, case)

to_case(name, case) ==
    join(split(name, 1, <<>>, <<>>), 1,
         IF case \in {"Snake", "UpperSnake"} THEN <<"_">> ELSE <<>>, case)

----------------------------------------------------------------------------
(* formatter.rs: the checks of check_complex_rules. A check returns Ok(<<>>)
   or Err(msg). *)

(* A mutant of is_case_different: the letters are compared without their case *)
is_case_differentIgnoringCase(test, target_case) ==
    LET compare(converted_str) ==
            IF to_lowercase(test) # to_lowercase(converted_str)
            THEN Err(converted_str) ELSE Ok(<<>>)
    IN  compare(to_case(test, target_case))

is_case_different(test, target_case) ==
    LET compare(converted_str) ==
            IF test # converted_str THEN Err(converted_str) ELSE Ok(<<>>)
    IN  compare(to_case(test, target_case))

check_name_case(name, case) ==
    LET report(different) ==
            IF different.ok THEN Ok(<<>>)
            ELSE Err(<< Lit("\""), Arg(name),
                        Lit("\" has incorrect case, the correct case is \""),
                        Arg(different.msg), Lit("\"") >>)
    IN  report(is_case_different(name, case))

(* if let Some(case) = ..: the check of a name under an optional case rule *)
check_case(name, case) ==
    IF case = "None" THEN Ok(<<>>) ELSE check_name_case(name, case)

starts_with(text, prefix) == MatchAt(text, 1, prefix)

check_prefix(name, prefix) ==
    IF ~starts_with(name, prefix)
    THEN Err(<< Lit("variable \""), Arg(name),
                Lit("\" has incorrect prefix, the correct prefix is \""), Arg(prefix),
                Lit("\"") >>)
    ELSE Ok(<<>>)

(* A mutant of first_error: the last error of the checks *)
last_error(checks) ==
    IF \A i \in 1..Len(checks) : checks[i].ok THEN Ok(<<>>)
    ELSE checks[CHOOSE i \in 1..Len(checks) :
                    ~checks[i].ok /\ \A j \in (i + 1)..Len(checks) : checks[j].ok]

(* The `?` chain: the first error of the checks, in their order *)
first_error(checks) ==
    IF \A i \in 1..Len(checks) : checks[i].ok THEN Ok(<<>>)
    ELSE checks[CHOOSE i \in 1..Len(checks) :
                    ~checks[i].ok /\ \A j \in 1..(i - 1) : checks[j].ok]

(* A name is an ASCII identifier, so the test of line 755 never holds *)
check_variable_name(cfg, full_name, type, is_global_scope) ==
    LET global == cfg.global_variable_prefix.some /\ is_global_scope
        prefix == cfg.global_variable_prefix.value
        Prefix(name, t, p) ==
            IF type = t /\ p.some THEN check_prefix(name, p.value) ELSE Ok(<<>>)
        checks(name) ==
            first_error(<< check_case(name, cfg.variable_case),
                           Prefix(name, "Bool", cfg.bool_prefix),
                           Prefix(name, "Integer", cfg.int_prefix),
                           Prefix(name, "Float", cfg.float_prefix) >>)
    IN  IF global /\ ~starts_with(full_name, prefix)
        THEN Err(<< Lit("\""), Arg(full_name),
                    Lit("\" has incorrect prefix because it's a global variable, the correct name is probably \""),
                    Arg(prefix \o full_name), Lit("\"") >>)
        ELSE checks(IF global THEN SubSeq(full_name, Len(prefix) + 1, Len(full_name))
                    ELSE full_name)

(* A mutant of check_members: the fields and the arguments are checked as global variables *)
check_membersGlobal(cfg, members) ==
    first_error([i \in 1..Len(members) |->
                    check_variable_name(cfg, members[i].name, members[i].type, TRUE)])

(* check_variable_name on the fields of a struct or the arguments of a function *)
check_members(cfg, members) ==
    first_error([i \in 1..Len(members) |->
                    check_variable_name(cfg, members[i].name, members[i].type, FALSE)])

check_struct_docs(info) ==
    IF info.docs = <<>>
    THEN Err(<< Lit("expected to find documentation for the struct \""), Arg(info.name),
                Lit("\"") >>)
    ELSE Ok(<<>>)

check_struct_field_docs(info) ==
    first_error([i \in 1..Len(info.members) |->
        IF info.members[i].docs = <<>>
        THEN Err(<< Lit("expected to find documentation for the struct field \""),
                    Arg(info.members[i].name), Lit("\"") >>)
        ELSE Ok(<<>>)])

(* A mutant of check_function_docs: @return in the documentation of a void
   function is not looked for *)
check_function_docsNoVoid(info) ==
    LET docs == info.docs
        Of(text) == <<Arg(text), Lit("\" of the function \""), Arg(info.name), Lit("\"")>>
        has_return == \E p \in 1..Len(docs) : MatchAt(docs, p, <<"@", "r", "e", "t", "u", "r", "n">>)
        found == {p \in 1..Len(docs) : MatchAt(docs, p, <<"@", "p", "a", "r", "a", "m", " ">>)}
        arg_name(p) == LET a == SkipSet(docs, p + 7, {" "})
                       IN  SubSeq(docs, a, SkipTo(docs, a, {<<" ">>}) - 1)
        documented == {arg_name(p) : p \in found}
        declared == {info.members[i].name : i \in 1..Len(info.members)}
        unknown == {p \in found : arg_name(p) \notin declared}
    IN  IF docs = <<>>
        THEN Err(<< Lit("expected to find documentation for the function \""),
                    Arg(info.name), Lit("\"") >>)
        ELSE IF info.type # "Void" /\ ~has_return
        THEN Err(<< Lit("expected to find documentation of the return value for the function \""),
                    Arg(info.name), Lit("\"") >>)
        ELSE first_error(
                [i \in 1..Len(info.members) |->
                    IF ~info.members[i].is_using_semantic
                       /\ info.members[i].name \notin documented
                    THEN Err(<<Lit("expected to find documentation for the argument \"")>>
                             \o Of(info.members[i].name))
                    ELSE Ok(<<>>)]
                \o <<IF unknown # {}
                     THEN Err(<<Lit("found documentation for a non-existing argument \"")>>
                              \o Of(arg_name(CHOOSE p \in unknown : \A q \in unknown : p <= q)))
                     ELSE Ok(<<>>)>>)

(* The characters of the model are ASCII, so the test of line 846 never holds *)
check_function_docs(info) ==
    LET docs == info.docs
        Of(text) == <<Arg(text), Lit("\" of the function \""), Arg(info.name), Lit("\"")>>
        has_return == \E p \in 1..Len(docs) : MatchAt(docs, p, <<"@", "r", "e", "t", "u", "r", "n">>)
        found == {p \in 1..Len(docs) : MatchAt(docs, p, <<"@", "p", "a", "r", "a", "m", " ">>)}
        arg_name(p) == LET a == SkipSet(docs, p + 7, {" "})
                       IN  SubSeq(docs, a, SkipTo(docs, a, {<<" ">>}) - 1)
        documented == {arg_name(p) : p \in found}
        declared == {info.members[i].name : i \in 1..Len(info.members)}
        unknown == {p \in found : arg_name(p) \notin declared}
    IN  IF docs = <<>>
        THEN Err(<< Lit("expected to find documentation for the function \""),
                    Arg(info.name), Lit("\"") >>)
        ELSE IF info.type # "Void" /\ ~has_return
        THEN Err(<< Lit("expected to find documentation of the return value for the function \""),
                    Arg(info.name), Lit("\"") >>)
        ELSE IF info.type = "Void" /\ has_return
        THEN Err(<< Lit("found documentation of the VOID return value for the function \""),
                    Arg(info.name), Lit("\"") >>)
        ELSE first_error(
                [i \in 1..Len(info.members) |->
                    IF ~info.members[i].is_using_semantic
                       /\ info.members[i].name \notin documented
                    THEN Err(<<Lit("expected to find documentation for the argument \"")>>
                             \o Of(info.members[i].name))
                    ELSE Ok(<<>>)]
                \o <<IF unknown # {}
                     THEN Err(<<Lit("found documentation for a non-existing argument \"")>>
                              \o Of(arg_name(CHOOSE p \in unknown : \A q \in unknown : p <= q)))
                     ELSE Ok(<<>>)>>)

(* The locals of check_complex_rules before its loop *)
InitCheck ==
    [is_global_scope |-> TRUE, is_inside_nolint |-> FALSE, scope_nesting_count |-> 0]

(* A mutant of check_token: a closing brace met with the counter at zero is passed over *)
check_tokenClamped(cfg, c, ct) ==
    LET brace(b) == ct.token.kind = "Ctrl" /\ ct.token.text = <<b>>
        When(flag, check) == IF flag THEN check ELSE Ok(<<>>)
    IN  CASE ct.kind = "VariableDeclaration" ->
                [res |-> check_variable_name(cfg, ct.name, ct.type, c.is_global_scope),
                 c |-> c]
          [] ct.kind = "Struct" ->
                [res |-> first_error(<<
                            When(cfg.require_docs_on_structs, check_struct_docs(ct)),
                            check_case(ct.name, cfg.struct_case),
                            check_members(cfg, ct.members),
                            When(cfg.require_docs_on_fields, check_struct_field_docs(ct)) >>),
                 c |-> [c EXCEPT !.is_global_scope = TRUE]]
          [] ct.kind = "Function" ->
                [res |-> first_error(<<
                            When(cfg.require_docs_on_functions, check_function_docs(ct)),
                            check_case(ct.name, cfg.function_case),
                            check_members(cfg, ct.members) >>),
                 c |-> [c EXCEPT !.is_global_scope = FALSE, !.scope_nesting_count = 0]]
          [] OTHER ->
                IF c.is_global_scope \/ ~(brace("{") \/ brace("}"))
                THEN [res |-> Ok(<<>>), c |-> c]
                ELSE IF brace("{")
                THEN [res |-> Ok(<<>>), c |-> [c EXCEPT !.scope_nesting_count = @ + 1]]
                ELSE IF c.scope_nesting_count = 0
                THEN [res |-> Ok(<<>>), c |-> c]
                ELSE [res |-> Ok(<<>>),
                      c |-> [c EXCEPT !.scope_nesting_count = @ - 1,
                                      !.is_global_scope = (c.scope_nesting_count = 1)]]

(* The `match complex_token` of check_complex_rules: the outcome of the checks
   and the locals after them *)
check_token(cfg, c, ct) ==
    LET brace(b) == ct.token.kind = "Ctrl" /\ ct.token.text = <<b>>
        When(flag, check) == IF flag THEN check ELSE Ok(<<>>)
    IN  CASE ct.kind = "VariableDeclaration" ->
                [res |-> check_variable_name(cfg, ct.name, ct.type, c.is_global_scope),
                 c |-> c]
          [] ct.kind = "Struct" ->
                [res |-> first_error(<<
                            When(cfg.require_docs_on_structs, check_struct_docs(ct)),
                            check_case(ct.name, cfg.struct_case),
                            check_members(cfg, ct.members),
                            When(cfg.require_docs_on_fields, check_struct_field_docs(ct)) >>),
                 c |-> [c EXCEPT !.is_global_scope = TRUE]]
          [] ct.kind = "Function" ->
                [res |-> first_error(<<
                            When(cfg.require_docs_on_functions, check_function_docs(ct)),
                            check_case(ct.name, cfg.function_case),
                            check_members(cfg, ct.members) >>),
                 c |-> [c EXCEPT !.is_global_scope = FALSE, !.scope_nesting_count = 0]]
          [] OTHER ->
                IF c.is_global_scope \/ ~(brace("{") \/ brace("}"))
                THEN [res |-> Ok(<<>>), c |-> c]
                ELSE IF brace("{")
                THEN [res |-> Ok(<<>>), c |-> [c EXCEPT !.scope_nesting_count = @ + 1]]
                ELSE IF c.scope_nesting_count = 0
                THEN [res |-> Err(<<Lit("found '}' but scope nesting counter is already zero")>>),
                      c |-> c]
                ELSE [res |-> Ok(<<>>),
                      c |-> [c EXCEPT !.scope_nesting_count = @ - 1,
                                      !.is_global_scope = (c.scope_nesting_count = 1)]]

(* Other(Token::Comment(text)) at position k with text.starts_with(word) *)
is_comment(cts, k, word) ==
    /\ k <= Len(cts)
    /\ cts[k].kind = "Other"
    /\ cts[k].token.kind = "Comment"
    /\ starts_with(cts[k].token.text, word)

(* CheckStep without the look at the next token *)
CheckStepNoPeek(cfg, cts, i, s) ==
    LET c1 == [s.c EXCEPT !.is_inside_nolint =
                  IF is_comment(cts, i, <<"N", "O", "L", "I", "N", "T", "B", "E", "G", "I", "N">>) THEN TRUE
                  ELSE IF is_comment(cts, i, <<"N", "O", "L", "I", "N", "T", "E", "N", "D">>) THEN FALSE
                  ELSE @]
    IN  IF ~s.res.ok THEN s
        ELSE IF c1.is_inside_nolint
        THEN [res |-> s.res, c |-> c1]
        ELSE check_token(cfg, c1, cts[i])

(* One iteration of the loop of check_complex_rules, on token i: s.res is
   the error an iteration before returned, if any, and s.c the locals *)
CheckStep(cfg, cts, i, s) ==
    LET c1 == [s.c EXCEPT !.is_inside_nolint =
                  IF is_comment(cts, i, <<"N", "O", "L", "I", "N", "T", "B", "E", "G", "I", "N">>) THEN TRUE
                  ELSE IF is_comment(cts, i, <<"N", "O", "L", "I", "N", "T", "E", "N", "D">>) THEN FALSE
                  ELSE @]
    IN  IF ~s.res.ok THEN s
        ELSE IF c1.is_inside_nolint \/ is_comment(cts, i + 1, <<"N", "O", "L", "I", "N", "T">>)
        THEN [res |-> s.res, c |-> c1]
        ELSE check_token(cfg, c1, cts[i])

(* The iterations on the tokens lo..hi, in order, up to the first that
   returns an error: the range is halved to keep the evaluation shallow *)
RECURSIVE CheckRange(_, _, _, _, _)
CheckRange(cfg, cts, lo, hi, s) ==
    IF lo = hi THEN CheckStep(cfg, cts, lo, s)
    ELSE LET mid == (lo + hi) \div 2
             s1 == CheckRange(cfg, cts, lo, mid, s)
         IN  IF s1.res.ok THEN CheckRange(cfg, cts, mid + 1, hi, s1) ELSE s1

(* The loop of check_complex_rules from token i on, and what follows it. The
   grave accents of the message of line 726 are written as apostrophes. *)
check_from(cfg, cts, i, c) ==
    LET end(s) == IF ~s.res.ok THEN s.res
                  ELSE IF s.c.is_inside_nolint
                  THEN Err(<<Lit("'NOLINTBEGIN' was found but no matching 'NOLINTEND' detected")>>)
                  ELSE Ok(<<>>)
    IN  end(IF i > Len(cts) THEN [res |-> Ok(<<>>), c |-> c]
            ELSE CheckRange(cfg, cts, i, Len(cts), [res |-> Ok(<<>>), c |-> c]))

check_complex_rules(cfg, complex_tokens) == check_from(cfg, complex_tokens, 1, InitCheck)

----------------------------------------------------------------------------
(* helpers.rs *)

(* The line and the column of the character at target_offset (from 0) *)
span_offset_to_line_and_column(target_offset, text) ==
    LET k == target_offset + 1
        breaks == {p \in 1..k : text[p] = "\n"}
        last == CHOOSE p \in breaks : \A q \in breaks : q <= p
    IN  IF k > Len(text) THEN <<0, 0>>
        ELSE <<1 + Cardinality(breaks), IF breaks = {} THEN k - 1 ELSE k - last>>

(* A number as format! writes it *)
RECURSIVE decimal(_)
decimal(n) ==
    LET digit == <<"0", "1", "2", "3", "4", "5", "6", "7", "8", "9">>[(n % 10) + 1]
    IN  IF n < 10 THEN <<digit>> ELSE Append(decimal(n \div 10), digit)

----------------------------------------------------------------------------
(* Formatter::format *)

(* The stages after the layout formatter: the lexer, the structural parser,
   which accepts every sequence of tokens, and the checker. Of the reason
   chumsky gives for a lexer error the message keeps the character found. *)
later_stages(cfg, text) ==
    LET token_error(at, found) ==
            Err(<< Lit("token parser error at line "), Arg(decimal(at[1])),
                   Lit(" column "), Arg(decimal(at[2])), Lit(", reason: "), Arg(found) >>)
        checked(rules) ==
            IF rules.ok THEN Ok(text)
            ELSE Err(<<Lit(CHANGES_REQUIRED_ERR_MSG), Lit(": ")>> \o rules.msg)
        lexed(tokens) ==
            IF tokens.ok
            THEN checked(check_complex_rules(cfg, complex_token_parser(tokens.tokens)))
            ELSE token_error(span_offset_to_line_and_column(tokens.offset, text),
                             <<text[tokens.offset + 1]>>)
    IN  lexed(token_parser(text))

(* A mutant of format_tail: the error of the layout rules is returned as it is *)
format_tailNoMarker(cfg, simple) ==
    IF ~simple.ok THEN Err(simple.msg) ELSE later_stages(cfg, simple.text)

(* A mutant of format_tail: every error of the later stages gets the marker *)
format_tailMarksAll(cfg, simple) ==
    LET marked(r) == IF r.ok THEN r
                     ELSE Err(<<Lit(CHANGES_REQUIRED_ERR_MSG), Lit(": ")>> \o r.msg)
    IN  IF ~simple.ok
        THEN Err(<<Lit(CHANGES_REQUIRED_ERR_MSG), Lit(": ")>> \o simple.msg)
        ELSE marked(later_stages(cfg, simple.text))

(* A mutant of format_tail: the later stages run although the layout rules failed *)
format_tailGoesOn(cfg, simple) == later_stages(cfg, simple.text)

format_tail(cfg, simple) ==
    IF ~simple.ok
    THEN Err(<<Lit(CHANGES_REQUIRED_ERR_MSG), Lit(": ")>> \o simple.msg)
    ELSE later_stages(cfg, simple.text)

format(cfg, text) ==
    IF text = <<>> THEN Ok(text) ELSE format_tail(cfg, apply_simple_rules(cfg, text))

----------------------------------------------------------------------------
(* The state machine: format reads `content`, a text made of words of the alphabet *)

NoResult == [ok |-> FALSE, text |-> <<>>, msg |-> <<>>]

NoRun ==
    [files |-> <<>>, start |-> <<>>, created |-> {}, only_scan |-> FALSE,
     next |-> 0, status |-> "none", cause |-> "none"]

InitWith(cfg, words) ==
    /\ config = cfg
    /\ alphabet = words
    /\ content = <<>>
    /\ nread = 0
    /\ st = InitLocals
    /\ pc = "loop"
    /\ result = NoResult
    /\ second = NoResult
    /\ run = NoRun

(* The iterations of the loop of apply_simple_rules on the characters of the next word *)
ReadWord(w) ==
    /\ pc = "loop"
    /\ nread < MaxLen
    /\ content' = content \o w
    /\ nread' = nread + 1
    /\ st' = RunLoop(config, st, w, 1)
    /\ UNCHANGED <<config, alphabet, pc, result, second, run>>

(* The end of the text: format returns, or the thread panics in the token
   parser and the program is aborted *)
Return ==
    /\ pc = "loop"
    /\ IF content # <<>> /\ ReturnSimple(st).ok /\ token_parser_panics(st.output)
       THEN pc' = "panic" /\ result' = result
       ELSE /\ pc' = "done"
            /\ result' = IF content = <<>> THEN Ok(content)
                          ELSE format_tail(config, ReturnSimple(st))
    /\ UNCHANGED <<config, alphabet, content, nread, st, second, run>>

(* format is called on the text it returned *)
FormatAgain ==
    /\ pc = "done"
    /\ result.ok
    /\ LET again(simple) ==
               IF result.text # <<>> /\ simple.ok /\ token_parser_panics(simple.text)
               THEN pc' = "panic" /\ second' = second
               ELSE /\ pc' = "again"
                    /\ second' = IF result.text = <<>> THEN Ok(result.text)
                                  ELSE format_tail(config, simple)
       IN  again(apply_simple_rules(config, result.text))
    /\ UNCHANGED <<config, alphabet, content, nread, st, result, run>>

Next ==
    \/ \E w \in alphabet : ReadWord(w)
    \/ Return
    \/ FormatAgain

(* Spec: the layout rules on short texts of single characters and a line comment *)
LayoutConfigs ==
    { [DefaultConfig EXCEPT !.new_line_around_braces = b, !.max_empty_lines = m] :
        b \in {"After", "Before"}, m \in {0, 1} }

LayoutAlphabet ==
    { <<"a">>, <<" ">>, <<"\n">>, <<"{">>, <<"}">>, <<"(">>, <<")">>, <<"/">>, <<"\\">>,
      <<"/", "/", "c">> }

Init == \E cfg \in LayoutConfigs : InitWith(cfg, LayoutAlphabet)

Spec == Init /\ [][Next]_vars

(* SpecStruct: the default configuration on texts made of the lines of a struct *)
StructAlphabet ==
    { <<"s", "t", "r", "u", "c", "t", " ", "F", "o", "o", "{", "\n">>,
      <<"i", "n", "t", " ", "a", ";", "\n">>,
      <<"}", ";">>,
      <<"\n">> }

InitStruct == InitWith(DefaultConfig, StructAlphabet)

SpecStruct == InitStruct /\ [][Next]_vars

(* SpecNoFormat: texts with the NOFORMAT comments, whole and in pieces *)
NoFormatBegin == <<"/", "/">> \o NOFORMAT_BEGIN_COMMENT

NoFormatEnd == <<"/", "/">> \o NOFORMAT_END_COMMENT

NoFormatAlphabet ==
    { NoFormatBegin, NoFormatEnd, <<"/">> \o NOFORMAT_END_COMMENT,
      <<"/">>, <<"\n">>, <<" ">>, <<"a">>, <<"{">> }

InitNoFormat == \E cfg \in LayoutConfigs : InitWith(cfg, NoFormatAlphabet)

SpecNoFormat == InitNoFormat /\ [][Next]_vars

(* SpecCase: the same case rule for variables, functions and structs, on texts
   made of whole declarations *)
Cases == {"Camel", "Pascal", "Snake", "UpperSnake"}

CaseConfigs ==
    { [DefaultConfig EXCEPT !.variable_case = c, !.function_case = c, !.struct_case = c] :
        c \in Cases }

CaseAlphabet ==
    { <<"i", "n", "t", " ", "M", "y", "_", "V", "a", "r", ";", "\n">>,
      <<"i", "n", "t", " ", "M", "y", "V", "a", "r", ";", "\n">>,
      <<"i", "n", "t", " ", "a", "B", ";", "\n">>,
      <<"v", "o", "i", "d", " ", "m", "y", "V", "a", "r", "(", "i", "n", "t", " ", "m", "y", "V", "a", "r", ")", " ", "{", "\n", "}", "\n">>,
      <<"s", "t", "r", "u", "c", "t", " ", "m", "y", "_", "v", "a", "r", " ", "{", "\n", "i", "n", "t", " ", "m", "y", "_", "v", "a", "r", ";", "\n", "}", ";", "\n">> }

InitCase == \E cfg \in CaseConfigs : InitWith(cfg, CaseAlphabet)

SpecCase == InitCase /\ [][Next]_vars

(* SpecDocs: documentation required on functions, on texts made of comment
   lines with tags and of whole functions *)
DocsConfig == [DefaultConfig EXCEPT !.require_docs_on_functions = TRUE]

DocsAlphabet ==
    { <<"/", "/", " ", "@", "r", "e", "t", "u", "r", "n", " ", "x", "\n">>,
      <<"/", "/", " ", "@", "p", "a", "r", "a", "m", " ", "a", "\n">>,
      <<"/", "/", " ", "@", "p", "a", "r", "a", "m", " ", "b", " ", "d", "\n">>,
      <<"i", "n", "t", " ", "g", "(", ")", " ", "{", "\n", "}", "\n">>,
      <<"i", "n", "t", " ", "f", "(", "i", "n", "t", " ", "a", ",", " ", "i", "n", "t", " ", "b", ")", " ", "{", "\n", "}", "\n">>,
      <<"v", "o", "i", "d", " ", "f", "(", "i", "n", "t", " ", "a", ",", " ", "i", "n", "t", " ", "b", " ", ":", " ", "B", ")", " ", "{", "\n", "}", "\n">> }

InitDocs == InitWith(DocsConfig, DocsAlphabet)

SpecDocs == InitDocs /\ [][Next]_vars

(* SpecLint: a case rule, a prefix rule and a documentation rule, on texts of
   whole declarations, of the NOLINT comments, of the NOFORMAT-begin comment
   and of an empty line *)
LintConfig ==
    [DefaultConfig EXCEPT !.variable_case = "Camel",
                          !.struct_case = "Pascal",
                          !.bool_prefix = Some(<<"b">>),
                          !.require_docs_on_functions = TRUE]

LintAlphabet ==
    { <<"/", "/", " ", "N", "O", "L", "I", "N", "T", "B", "E", "G", "I", "N", "\n">>,
      <<"/", "/", " ", "N", "O", "L", "I", "N", "T", "E", "N", "D", "\n">>,
      <<"i", "n", "t", " ", "M", "y", "_", "V", "a", "r", ";", "\n">>,
      <<"b", "o", "o", "l", " ", "o", "k", ";", "\n">>,
      <<"s", "t", "r", "u", "c", "t", " ", "m", "y", "_", "s", " ", "{", "\n", "i", "n", "t", " ", "a", ";", "\n", "}", ";", "\n">>,
      <<"v", "o", "i", "d", " ", "f", "(", ")", " ", "{", "\n", "}", "\n">>,
      NoFormatBegin \o <<"\n">>,
      <<"\n">> }

InitLint == InitWith(LintConfig, LintAlphabet)

SpecLint == InitLint /\ [][Next]_vars

(* SpecEnding: the texts of a letter, a carriage return, a line feed, a brace
   and a space, formatted with ForceLineEnding absent, "\r\n" or "\n" *)
EndingAlphabet == { <<"a">>, <<"\r">>, <<"\n">>, <<"{">>, <<" ">> }

EndingConfigs ==
    { [DefaultConfig EXCEPT !.force_line_ending = e] :
        e \in { None, Some(<<"\r", "\n">>), Some(<<"\n">>) } }

InitEnding == \E cfg \in EndingConfigs : InitWith(cfg, EndingAlphabet)

SpecEnding == InitEnding /\ [][Next]_vars

(* SpecScope: a global prefix, a case rule and an int prefix, on texts of
   variables, of a function header with its opening brace, of a closing
   brace, of a function prototype and of a struct *)
InitScope ==
    InitWith([DefaultConfig EXCEPT !.global_variable_prefix = Some(<<"g", "_">>),
                                   !.variable_case = "Camel",
                                   !.int_prefix = Some(<<"i">>)],
             { <<"i", "n", "t", " ", "g", "_", "i", "A", ";", "\n">>,
               <<"i", "n", "t", " ", "i", "A", ";", "\n">>,
               <<"i", "n", "t", " ", "g", "_", "a", ";", "\n">>,
               <<"i", "n", "t", " ", "I", "_", "a", ";", "\n">>,
               <<"v", "o", "i", "d", " ", "f", "(", "i", "n", "t", " ", "i", "A", ")", " ", "{", "\n">>,
               <<"}", "\n">>,
               <<"v", "o", "i", "d", " ", "f", "(", ")", ";", "\n">>,
               <<"s", "t", "r", "u", "c", "t", " ", "S", " ", "{", "\n", "i", "n", "t", " ", "i", "A", ";", "\n", "}", ";", "\n">> })

SpecScope == InitScope /\ [][Next]_vars

(* SpecFields: documentation required or not on structs and on fields, with a
   global prefix and an int prefix, on texts of a comment line, of structs
   with and without comments on their fields, and of a variable *)
InitFields ==
    \E structs \in BOOLEAN : \E fields \in BOOLEAN :
        InitWith([DefaultConfig EXCEPT !.require_docs_on_structs = structs,
                                       !.require_docs_on_fields = fields,
                                       !.global_variable_prefix = Some(<<"g", "_">>),
                                       !.int_prefix = Some(<<"i">>)],
                 { <<"/", "/", " ", "d", "\n">>,
                   <<"s", "t", "r", "u", "c", "t", " ", "S", " ", "{", "\n", "i", "n", "t", " ", "i", "A", ";", "\n", "}", ";", "\n">>,
                   <<"s", "t", "r", "u", "c", "t", " ", "S", " ", "{", "\n", "/", "/", " ", "d", "\n", "i", "n", "t", " ", "i", "A", ";", "\n", "}", ";", "\n">>,
                   <<"s", "t", "r", "u", "c", "t", " ", "S", " ", "{", "\n", "/", "/", " ", "d", "\n", "i", "n", "t", " ", "i", "A", ";", "\n", "i", "n", "t", " ", "i", "B", ";", "\n", "}", ";", "\n">>,
                   <<"s", "t", "r", "u", "c", "t", " ", "S", " ", "{", "\n", "/", "/", " ", "d", "\n", "i", "n", "t", " ", "a", ";", "\n", "}", ";", "\n">>,
                   <<"i", "n", "t", " ", "g", "_", "i", "A", ";", "\n">> })

SpecFields == InitFields /\ [][Next]_vars

(* SpecPrefix: a bool, an int and a float prefix, with and without a case
   rule, on texts of variables, functions and structs of the scalar and of
   other types *)
InitPrefix ==
    \E case \in {"None", "Camel"} :
        InitWith([DefaultConfig EXCEPT !.variable_case = case,
                                       !.bool_prefix = Some(<<"b">>),
                                       !.int_prefix = Some(<<"i">>),
                                       !.float_prefix = Some(<<"f">>)],
                 { <<"i", "n", "t", " ", "i", "A", ";", "\n">>,
                   <<"b", "o", "o", "l", " ", "i", "A", ";", "\n">>,
                   <<"f", "l", "o", "a", "t", " ", "a", ";", "\n">>,
                   <<"v", "e", "c", "2", " ", "a", ";", "\n">>,
                   <<"v", "o", "i", "d", " ", "f", "(", "i", "n", "t", " ", "a", ")", " ", "{", "\n", "}", "\n">>,
                   <<"v", "o", "i", "d", " ", "f", "(", "b", "o", "o", "l", " ", "b", "A", ",", " ", "F", "o", "o", " ", "a", ")", " ", "{", "\n", "}", "\n">>,
                   <<"s", "t", "r", "u", "c", "t", " ", "S", " ", "{", "\n", "f", "l", "o", "a", "t", " ", "f", "A", ";", "\n", "m", "a", "t", "4", "x", "4", " ", "a", ";", "\n", "T", "e", "x", "t", "u", "r", "e", "2", "D", " ", "a", ";", "\n", "S", "a", "m", "p", "l", "e", "r", "S", "t", "a", "t", "e", " ", "a", ";", "\n", "i", "n", "t", " ", "a", "[", "2", "]", ";", "\n", "}", ";", "\n">>,
                   <<"s", "t", "r", "u", "c", "t", " ", "S", " ", "{", "\n", "i", "n", "t", " ", "a", ";", "\n", "}", ";", "\n">>,
                   <<"i", "n", "t", " ", "i", "A", ",", " ", "a", ";", "\n">> })

SpecPrefix == InitPrefix /\ [][Next]_vars

(* SpecNest: brackets of the three kinds, the directives that change the
   nesting and a line comment, with the nesting of #if on *)
InitNest ==
    InitWith([DefaultConfig EXCEPT !.indent_preprocessor = TRUE,
                                   !.preprocessor_if_creates_nesting = TRUE],
             { <<"{">>, <<"}">>, <<"(">>, <<")">>, <<"[">>, <<"]">>, <<"\n">>, <<"a">>,
               <<"#", "i", "f">>, <<"#", "e", "l", "s", "e">>, <<"#", "e", "l", "i", "f">>, <<"#", "e", "n", "d", "i", "f">>, <<"/", "/">> })

SpecNest == InitNest /\ [][Next]_vars

(* SpecStyle: the layout rules that depend on the configuration, each on the
   words that exercise it: brackets with and without spaces_in_brackets;
   lines that start with a directive or with `=`, some after a continued
   line, with and without indent_preprocessor; and whole lines of #if blocks
   with indent_preprocessor, with and without preprocessor_if_creates_nesting;
   and block comments that hold a brace, a bracket and a directive *)
InitStyle ==
    \/ \E spaces \in BOOLEAN :
          InitWith([DefaultConfig EXCEPT !.spaces_in_brackets = spaces],
                   { <<"(">>, <<")">>, <<"[">>, <<"]">>, <<"a">>, <<" ">>, <<"\t">>, <<"\n">> })
    \/ \E indents \in BOOLEAN :
          InitWith([DefaultConfig EXCEPT !.indent_preprocessor = indents],
                   { <<"#", "i", "f">>, <<"#", "e", "l", "s", "e">>, <<"#", "e", "n", "d", "i", "f">>, <<"=">>, <<"a">>, <<" ">>, <<"{">>, <<"\n">>,
                     <<"\\", "\n">> })
    \/ \E nests \in BOOLEAN :
          InitWith([DefaultConfig EXCEPT !.indent_preprocessor = TRUE,
                                         !.preprocessor_if_creates_nesting = nests],
                   { <<"#", "i", "f", "\n">>, <<"#", "i", "f", "d", "e", "f", "\n">>, <<"#", "e", "l", "s", "e", "\n">>, <<"#", "e", "l", "i", "f", "\n">>, <<"#", "e", "n", "d", "i", "f", "\n">>,
                     <<"a", "\n">>, <<" ">> })
    \/ \E nests \in BOOLEAN :
          InitWith([DefaultConfig EXCEPT !.indent_preprocessor = TRUE,
                                         !.preprocessor_if_creates_nesting = nests],
                   { <<"/", "*", "*">>, <<"*", "/">>, <<"*">>, <<"{">>, <<"(">>, <<"#", "i", "f">>, <<" ">>, <<"\n">> })

SpecStyle == InitStyle /\ [][Next]_vars

(* SpecTokens: the rules on tokens: declarations with a NOLINT comment before
   or after them, and declarations with the comments of a NOLINT region, both
   with the case rule for variables; and integer literals at the two ends of
   the range of i64 *)
InitTokens ==
    \/ InitWith([DefaultConfig EXCEPT !.variable_case = "Camel"],
                { <<"/", "/", " ", "N", "O", "L", "I", "N", "T", "\n">>, <<"i", "n", "t", " ", "M", "y", "_", "V", "a", "r", ";", "\n">>, <<"i", "n", "t", " ", "M", "y", "_", "V", "a", "r", ";", " ", "/", "/", " ", "N", "O", "L", "I", "N", "T", "\n">>,
                  <<"i", "n", "t", " ", "o", "k", ";", "\n">>, <<"s", "t", "r", "u", "c", "t", " ", "S", " ", "{", "\n", "i", "n", "t", " ", "a", ";", "\n", "}", ";", "\n">> })
    \/ InitWith([DefaultConfig EXCEPT !.variable_case = "Camel"],
                { <<"/", "/", " ", "N", "O", "L", "I", "N", "T", "B", "E", "G", "I", "N", "\n">>, <<"/", "/", " ", "N", "O", "L", "I", "N", "T", "E", "N", "D", "\n">>,
                  <<"i", "n", "t", " ", "M", "y", "_", "V", "a", "r", ";", "\n">>, <<"i", "n", "t", " ", "o", "k", ";", "\n">>, <<"s", "t", "r", "u", "c", "t", " ", "S", " ", "{", "\n", "i", "n", "t", " ", "a", ";", "\n", "}", ";", "\n">> })
    \/ InitWith(DefaultConfig,
                { <<"9", "2", "2", "3", "3", "7", "2", "0", "3", "6", "8", "5", "4", "7", "7", "5", "8", "0", "7">>, <<"9", "2", "2", "3", "3", "7", "2", "0", "3", "6", "8", "5", "4", "7", "7", "5", "8", "0", "8">>, <<"-">>, <<"1">>,
                  <<"i", "n", "t", " ", "a", " ", "=", " ">>, <<";", "\n">>, <<".">>, <<"/", "/", " ">> })

SpecTokens == InitTokens /\ [][Next]_vars

----------------------------------------------------------------------------
(* main.rs: main, from the loop over shader_paths on. run.files are the
   contents of the files of shader_paths, in order; run.next is the file the
   loop is at. run.start and run.created record the contents at the start and
   the files File::create was called on with success. *)

SUCCESS == "SUCCESS"

FAILURE == "FAILURE"

(* The lines of a text as a line-based comparison sees them: split at the line
   feeds, without the carriage return before a line feed, and with no empty
   line after a final line feed *)
LineBreaks(text) == {i \in 1..Len(text) : text[i] = "\n"}

LineCount(text) ==
    Cardinality(LineBreaks(text))
        + (IF text # <<>> /\ text[Len(text)] # "\n" THEN 1 ELSE 0)

LineOf(text, n) ==
    LET breaks == LineBreaks(text)
        nth(k) == CHOOSE p \in breaks : Cardinality({q \in breaks : q < p}) = k - 1
        first == IF n = 1 THEN 1 ELSE nth(n - 1) + 1
        last == IF n <= Cardinality(breaks) THEN nth(n) - 1 ELSE Len(text)
        line == SubSeq(text, first, last)
    IN  IF line # <<>> /\ line[Len(line)] = "\r" /\ n <= Cardinality(breaks)
        THEN SubSeq(line, 1, Len(line) - 1)
        ELSE line

LinesOf(text) == [n \in 1..LineCount(text) |-> LineOf(text, n)]

(* diff::myers::lines and the search for a Left or a Right in its result: the
   values formatting_needed can have. Equal texts have only Both entries and
   texts with different lines have a Left or a Right; for texts that differ
   in their line breaks only, both values are possible. *)
formatting_needed(file_content, formatted) ==
    IF file_content = formatted THEN {FALSE}
    ELSE IF LinesOf(file_content) # LinesOf(formatted) THEN {TRUE}
    ELSE BOOLEAN

(* The texts of the files: one that format leaves as it is, one whose lines
   format changes, one that the lexer rejects, one with an unmatched
   NOFORMATBEGIN, one that format changes in its line break only, and an
   empty one *)
FileTexts ==
    { <<"a", "\n">>, <<"{", "}">>, <<"\n">>, NoFormatBegin, <<"a", "\r", "\n">>, <<>> }

InitMain ==
    /\ config = DefaultConfig
    /\ alphabet = {}
    /\ content = <<>>
    /\ nread = 0
    /\ st = InitLocals
    /\ pc = "main"
    /\ result = NoResult
    /\ second = NoResult
    /\ \E n \in 0..MaxFiles : \E files \in [1..n -> FileTexts] : \E scan \in BOOLEAN :
           run = [files |-> files, start |-> files, created |-> {},
                  only_scan |-> scan, next |-> 1, status |-> "running", cause |-> "none"]

Formatter == <<config, alphabet, content, nread, st, pc, result, second>>

AtFile == pc = "main" /\ run.status = "running" /\ run.next <= Len(run.files)

Exit(status, cause) == [run EXCEPT !.status = status, !.cause = cause]

(* std::fs::read_to_string fails *)
ReadFails ==
    /\ AtFile
    /\ run' = Exit(FAILURE, "read")
    /\ UNCHANGED Formatter

(* A mutant of FormatFails: the file is created, and so truncated, before format is called *)
FormatFailsTruncated ==
    /\ AtFile
    /\ ~format(config, run.files[run.next]).ok
    /\ run' = [run EXCEPT !.files[run.next] = <<>>,
                          !.created = @ \cup {run.next},
                          !.status = FAILURE,
                          !.cause = "format"]
    /\ UNCHANGED Formatter

(* A mutant of FormatFails: the error of format is printed and the loop goes on *)
FormatFailsGoesOn ==
    /\ AtFile
    /\ ~format(config, run.files[run.next]).ok
    /\ run' = [run EXCEPT !.next = @ + 1]
    /\ UNCHANGED Formatter

(* formatter.format returns Err: the message is printed and main returns *)
FormatFails ==
    /\ AtFile
    /\ ~format(config, run.files[run.next]).ok
    /\ run' = Exit(FAILURE, "format")
    /\ UNCHANGED Formatter

(* only_scan, and the diff has a Left or a Right: the diff is printed and main returns *)
ScanNeeded ==
    /\ AtFile
    /\ run.only_scan
    /\ format(config, run.files[run.next]).ok
    /\ TRUE \in formatting_needed(run.files[run.next],
                                  format(config, run.files[run.next]).text)
    /\ run' = Exit(FAILURE, "diff")
    /\ UNCHANGED Formatter

(* only_scan, and the diff has neither: the loop goes on *)
ScanClean ==
    /\ AtFile
    /\ run.only_scan
    /\ format(config, run.files[run.next]).ok
    /\ FALSE \in formatting_needed(run.files[run.next],
                                   format(config, run.files[run.next]).text)
    /\ run' = [run EXCEPT !.next = @ + 1]
    /\ UNCHANGED Formatter

(* File::create fails: the file is left as it is *)
CreateFails ==
    /\ AtFile
    /\ ~run.only_scan
    /\ format(config, run.files[run.next]).ok
    /\ run' = Exit(FAILURE, "create")
    /\ UNCHANGED Formatter

(* File::create truncates the file and write! fails: the file holds a part of the output *)
WriteFails ==
    /\ AtFile
    /\ ~run.only_scan
    /\ format(config, run.files[run.next]).ok
    /\ \E k \in 0..(Len(format(config, run.files[run.next]).text) - 1) :
           run' = [run EXCEPT !.files[run.next] =
                                  SubSeq(format(config, run.files[run.next]).text, 1, k),
                              !.created = @ \cup {run.next},
                              !.status = FAILURE,
                              !.cause = "write"]
    /\ UNCHANGED Formatter

(* File::create and write! succeed: the file holds the output, the loop goes on *)
WriteFile ==
    /\ AtFile
    /\ ~run.only_scan
    /\ format(config, run.files[run.next]).ok
    /\ run' = [run EXCEPT !.files[run.next] = format(config, run.files[run.next]).text,
                          !.created = @ \cup {run.next},
                          !.next = @ + 1]
    /\ UNCHANGED Formatter

(* The loop is over: main returns ExitCode::SUCCESS *)
Finish ==
    /\ pc = "main"
    /\ run.status = "running"
    /\ run.next > Len(run.files)
    /\ run' = Exit(SUCCESS, "none")
    /\ UNCHANGED Formatter

NextMain ==
    \/ ReadFails
    \/ FormatFails
    \/ ScanNeeded
    \/ ScanClean
    \/ CreateFails
    \/ WriteFails
    \/ WriteFile
    \/ Finish

SpecMain == InitMain /\ [][NextMain]_vars

----------------------------------------------------------------------------
(* Vocabulary of the properties *)

Count(text, ch) == Cardinality({i \in 1..Len(text) : text[i] = ch})

(* The characters the layout formatter may add or remove: whitespace and the
   backslash of a macro continuation *)
Layout == BlankOrBreak \cup {"\\"}

CharsOf(text) == {text[i] : i \in 1..Len(text)}

(* The longest run of line breaks of `text`, blanks between two line breaks
   not ending the run: cur is the run that ends at position i - 1 *)
RECURSIVE BreakRun(_, _, _, _)
BreakRun(text, i, cur, best) ==
    IF i > Len(text) THEN best
    ELSE IF text[i] = "\n"
         THEN BreakRun(text, i + 1, cur + 1, IF cur + 1 > best THEN cur + 1 ELSE best)
    ELSE IF text[i] \in Blank THEN BreakRun(text, i + 1, cur, best)
    ELSE BreakRun(text, i + 1, 0, best)

MaxBreakRun(text) == BreakRun(text, 1, 0, 0)

(* The nesting depth of `text` before position i, counted on the text itself *)
RECURSIVE DepthBefore(_, _)
DepthBefore(text, i) ==
    IF i <= 1 THEN 0
    ELSE LET d == DepthBefore(text, i - 1)
         IN  IF text[i - 1] \in {"{", "(", "["} THEN d + 1
             ELSE IF text[i - 1] \in {"}", ")", "]"} THEN saturating_sub(d, 1)
             ELSE d

EndsWith(text, tail) ==
    Len(tail) <= Len(text) /\ SubSeq(text, Len(text) - Len(tail) + 1, Len(text)) = tail

(* The character c, read in state s, is outside comments and NOFORMAT regions *)
ReadsAsCode(s, c) ==
    LET s1 == Detect(config, IF s.is_on_new_line THEN LineStart(config, s, c) ELSE s, c)
    IN  ~(s1.inside_comment \/ s1.inside_c_comment_count > 0 \/ s1.inside_no_format)

(* The previous input line ended with a backslash, for a character read in state s *)
AfterBackslashLine(s) ==
    IF s.is_on_new_line THEN s.last_non_space_char_is_backslash
    ELSE s.prev_line_ended_with_backslash

(* This step reads the word w *)
ReadsWord(w) == pc = "loop" /\ pc' = "loop" /\ content' = content \o w

(* `text` holds a NOFORMAT-begin comment that no NOFORMAT-end comment follows *)
HasUnmatchedBegin(text) ==
    \E i \in 1..Len(text) :
        /\ MatchAt(text, i, NoFormatBegin)
        /\ \A j \in (i + 1)..Len(text) : ~MatchAt(text, j, NoFormatEnd)

(* This step reads the single character c *)
Reads(c) == pc = "loop" /\ pc' = "loop" /\ content' = Append(content, c)

----------------------------------------------------------------------------
(* C2: the layout formatter changes only whitespace and line breaks: every
   character other than whitespace and the backslash occurs in the output as
   often as in the input. *)
OnlyLayoutChanges ==
    (pc = "done" /\ ReturnSimple(st).ok) =>
        \A ch \in (CharsOf(content) \cup CharsOf(st.output)) \ Layout :
            Count(st.output, ch) = Count(content, ch)

(* C3: the output never holds more than max_empty_lines + 1 consecutive line
   breaks, line breaks separated only by indentation counting as consecutive. *)
BlankLineBound == MaxBreakRun(st.output) <= config.max_empty_lines + 1

BlankLineBoundWitness ==
    /\ pc = "done"
    /\ config.max_empty_lines = 1
    /\ content = <<"a", "\n", "\n", "\n">>
    /\ st.output = <<"a", "\n", "\n">>

(* C4, as stated: with the rule After, every `{` of the output at nesting depth
   zero has exactly one space before it and a line break after it. *)
BraceAfterInOutput ==
    (pc = "done" /\ config.new_line_around_braces = "After") =>
        \A i \in 1..Len(st.output) :
            (st.output[i] = "{" /\ DepthBefore(st.output, i) = 0) =>
                /\ i > 1 /\ st.output[i - 1] = " "
                /\ i > 2 => st.output[i - 2] # " "
                /\ i < Len(st.output) /\ st.output[i + 1] = "\n"

(* C4, amended: with the rule After, when a `{` is read at nesting depth zero,
   outside comments and NOFORMAT regions, the previous input line not ending
   with a backslash and the output line it continues holding no `/`, it is
   written after the text before it with exactly one space before it and a
   line break after it. *)
BraceAfterWritten ==
    [][ ( /\ Reads("{")
          /\ config.new_line_around_braces = "After"
          /\ st.nesting_count = 0
          /\ ReadsAsCode(st, "{")
          /\ ~AfterBackslashLine(st)
          /\ "/" \notin CharsOf(LineBefore(StripTrailing(st.output, BlankOrBreak))) )
        => LET text == StripTrailing(st.output, BlankOrBreak)
           IN  st'.output = text \o <<" ", "{", "\n">> \o Indent(config, 1) ]_vars

BraceAfterWitness ==
    /\ pc = "loop"
    /\ config.new_line_around_braces = "After"
    /\ content = <<"a", " ", " ", "{">>
    /\ st.output = <<"a", " ", "{", "\n", " ", " ", " ", " ">>

(* C5, as stated: with the rule Before, every `{` of the output has a line
   break and the indentation of its own depth before it, and a line break and
   the indentation of the next depth after it. *)
BraceBeforeInOutput ==
    (pc = "done" /\ config.new_line_around_braces = "Before") =>
        \A i \in 1..Len(st.output) :
            st.output[i] = "{" =>
                LET d == DepthBefore(st.output, i)
                    before == LINE_ENDING \o Indent(config, d)
                    after == LINE_ENDING \o Indent(config, d + 1)
                IN  /\ EndsWith(SubSeq(st.output, 1, i - 1), before)
                    /\ i + Len(after) <= Len(st.output)
                    /\ SubSeq(st.output, i + 1, i + Len(after)) = after

(* C5, amended: with the rule Before, when a `{` is read outside comments and
   NOFORMAT regions, the previous input line not ending with a backslash, it
   is written on a line of its own: after the text before it come a line
   break, the indentation of the nesting depth before the brace, the brace, a
   line break and the indentation one level deeper. *)
BraceBeforeWritten ==
    [][ ( /\ Reads("{")
          /\ config.new_line_around_braces = "Before"
          /\ ReadsAsCode(st, "{")
          /\ ~AfterBackslashLine(st) )
        => /\ st'.nesting_count = st.nesting_count + 1
           /\ st'.output = StripTrailing(st.output, BlankOrBreak)
                              \o LINE_ENDING \o Indent(config, st.nesting_count) \o <<"{">>
                              \o LINE_ENDING \o Indent(config, st.nesting_count + 1) ]_vars

BraceBeforeWitness ==
    /\ pc = "loop"
    /\ config.new_line_around_braces = "Before"
    /\ content = <<"(", "a", " ", "{">>
    /\ st.output = <<"(", "a", "\n">> \o Indent(config, 1) \o <<"{", "\n">> \o Indent(config, 2)

(* C6, as stated: with the default configuration the struct of three lines
   comes out as the four lines `struct Foo`, `{`, `    int a;`, `};`. *)
StructExample ==
    <<"s", "t", "r", "u", "c", "t", " ", "F", "o", "o", "{", "\n",
      "i", "n", "t", " ", "a", ";", "\n", "}", ";">>

StructOnFourLines ==
    (pc = "done" /\ content = StructExample) =>
        result = Ok(<<"s", "t", "r", "u", "c", "t", " ", "F", "o", "o", "\n",
                      "{", "\n",
                      " ", " ", " ", " ", "i", "n", "t", " ", "a", ";", "\n",
                      "}", ";">>)

(* C6, amended: with the default configuration the struct of three lines
   comes out as the three lines `struct Foo {`, `    int a;`, `};`. *)
StructOnThreeLines ==
    (pc = "done" /\ content = StructExample) =>
        result = Ok(<<"s", "t", "r", "u", "c", "t", " ", "F", "o", "o", " ", "{", "\n",
                      " ", " ", " ", " ", "i", "n", "t", " ", "a", ";", "\n",
                      "}", ";">>)

StructWitness == pc = "done" /\ content = StructExample /\ result.ok

(* C7: a text whose NOFORMAT-begin comment has no later NOFORMAT-end comment
   makes format fail, and the layout formatter fails on no other text. *)
UnmatchedNoFormatFails ==
    pc = "done" =>
        /\ HasUnmatchedBegin(content) => ~result.ok
        /\ ~ReturnSimple(st).ok => HasUnmatchedBegin(content)

(* C8: while the formatter is inside a NOFORMAT region, what it reads is
   appended to the output as it is and the nesting counter stays. *)
NoFormatCopiesVerbatim ==
    [][ \A w \in alphabet :
          (ReadsWord(w) /\ st.inside_no_format /\ st'.inside_no_format)
              => /\ st'.output = st.output \o w
                 /\ st'.nesting_count = st.nesting_count ]_vars

----------------------------------------------------------------------------
(* C1: idempotence. When format returned Ok(F) for the text read, format
   on F, under the same configuration, returns Ok(F) again. *)
FormatIsIdempotent ==
    pc = "again" => second = result

----------------------------------------------------------------------------
(* The names a text declares, in their order: its identifiers but `struct` *)
NamesOf(text) ==
    LET ids == SelectSeq(token_parser(text).tokens,
                         LAMBDA t : t.kind = "Ident" /\ t.text # <<"s", "t", "r", "u", "c", "t">>)
    IN  [i \in 1..Len(ids) |-> ids[i].text]

(* The message of format for a name of the wrong case and the name proposed *)
IncorrectCase(name, correct) ==
    << Lit(CHANGES_REQUIRED_ERR_MSG), Lit(": "), Lit("\""), Arg(name),
       Lit("\" has incorrect case, the correct case is \""), Arg(correct), Lit("\"") >>

(* C9: with a case rule set for variables, functions and structs, format
   accepts a text if and only if each name it declares equals its conversion
   to the target case; otherwise it fails with the message that names the
   first such name and proposes its conversion. With the rule Camel the
   global variable My_Var is rejected and myVar proposed. *)
CaseRuleDecides ==
    pc = "done" =>
        LET case == config.variable_case
            names == NamesOf(content)
            wrong == {i \in 1..Len(names) : names[i] # to_case(names[i], case)}
            first == CHOOSE i \in wrong : \A j \in wrong : i <= j
        IN  /\ result.ok <=> wrong = {}
            /\ ~result.ok =>
                  result.msg = IncorrectCase(names[first], to_case(names[first], case))
            /\ (case = "Camel" /\ content = <<"i", "n", "t", " ", "M", "y", "_", "V", "a", "r", ";", "\n">>) =>
                  result = Err(IncorrectCase(<<"M", "y", "_", "V", "a", "r">>, <<"m", "y", "V", "a", "r">>))

CaseRuleWitness ==
    /\ pc = "done"
    /\ config.variable_case = "Camel"
    /\ content = <<"i", "n", "t", " ", "M", "y", "_", "V", "a", "r", ";", "\n">>
    /\ ~result.ok

(* C10: the conversion is idempotent: a name format proposes is itself in
   the target case, that is, the case rule accepts it, and so for the
   conversion of every name of the text. *)
SuggestionIsAccepted ==
    pc = "done" =>
        LET case == config.variable_case
            names == NamesOf(content)
        IN  /\ ~result.ok => is_case_different(result.msg[6].arg, case).ok
            /\ \A i \in 1..Len(names) :
                  to_case(to_case(names[i], case), case) = to_case(names[i], case)

----------------------------------------------------------------------------
(* The declarations of a text: its tokens and its complex tokens *)
TokensOf(text) == token_parser(text).tokens

FunctionsOf(text) ==
    SelectSeq(complex_token_parser(TokensOf(text)), LAMBDA ct : ct.kind = "Function")

HasTag(docs, tag) == \E p \in 1..Len(docs) : MatchAt(docs, p, tag)

ReturnTag == <<"@", "r", "e", "t", "u", "r", "n">>

(* The function's documentation and its return type disagree on @return *)
WrongReturnDocs(f) == (f.type # "Void") # HasTag(f.docs, ReturnTag)

(* The two messages of format about the documentation of a return value *)
IsReturnMessage(msg) ==
    /\ Len(msg) >= 3
    /\ msg[3].lit \in
          { "expected to find documentation of the return value for the function \"",
            "found documentation of the VOID return value for the function \"" }

DocumentedInt == <<"/", "/", " ", "@", "r", "e", "t", "u", "r", "n", " ", "x", "\n", "i", "n", "t", " ", "g", "(", ")", " ", "{", "\n", "}", "\n">>

(* C11: with documentation required on functions, a text with a non-void
   function whose documentation has no @return, or with a void function
   whose documentation has @return, is rejected; format complains about the
   documentation of a return value only for such a function; and the
   function `int g()` documented with @return is accepted. *)
ReturnTagRule ==
    (pc = "done" /\ ReturnSimple(st).ok) =>
        LET fs == FunctionsOf(st.output)
            wrong == {i \in 1..Len(fs) : WrongReturnDocs(fs[i])}
        IN  /\ wrong # {} => ~result.ok
            /\ (~result.ok /\ IsReturnMessage(result.msg)) => wrong # {}
            /\ content = DocumentedInt => result.ok

ReturnTagWitness ==
    /\ pc = "done"
    /\ ~result.ok
    /\ IsReturnMessage(result.msg)
    /\ \E i \in 1..Len(FunctionsOf(st.output)) :
          /\ FunctionsOf(st.output)[i].type = "Void"
          /\ HasTag(FunctionsOf(st.output)[i].docs, ReturnTag)

----------------------------------------------------------------------------
(* The tokens at which a function starts: a type, a name and `(` *)
FunctionStarts(toks) ==
    SelectSeq([k \in 1..Len(toks) |-> k],
              LAMBDA k : /\ k + 2 <= Len(toks)
                         /\ toks[k].kind = "TypeName"
                         /\ toks[k + 1].kind = "Ident"
                         /\ toks[k + 2].kind = "Ctrl" /\ toks[k + 2].text = <<"(">>)

(* The comment lines directly before token k *)
LeadingComments(toks, k) ==
    {j \in 1..(k - 1) : \A m \in j..(k - 1) : toks[m].kind = "Comment"}

(* The names the tags `@param <name>` of one comment line give *)
ParamNames(line) ==
    { LET a == SkipSet(line, p + 7, {" "})
      IN  SubSeq(line, a, SkipTo(line, a, {<<" ">>}) - 1) :
        p \in {q \in 1..Len(line) : MatchAt(line, q, <<"@", "p", "a", "r", "a", "m", " ">>)} }

(* The arguments of function f are documented by the comment lines before
   token k: each argument without a semantic has a tag, and each tag names
   an argument *)
ArgumentsDocumented(toks, k, f) ==
    LET tags == UNION {ParamNames(toks[j].text) : j \in LeadingComments(toks, k)}
        args == {i \in 1..Len(f.members) : TRUE}
    IN  /\ \A i \in args : f.members[i].is_using_semantic \/ f.members[i].name \in tags
        /\ \A t \in tags : \E i \in args : f.members[i].name = t

(* C12: with documentation required on functions, format accepts a text
   exactly when each of its functions is documented, its @return tag agrees
   with its return type, and the names of the @param tags of its leading
   comment lines are those of its arguments (an argument with a semantic may
   be left out), whatever the lines the tags are on. *)
ParamTagsDecide ==
    (pc = "done" /\ ReturnSimple(st).ok) =>
        LET toks == TokensOf(st.output)
            fs == FunctionsOf(st.output)
            starts == FunctionStarts(toks)
        IN  result.ok <=>
                \A i \in 1..Len(fs) :
                    /\ fs[i].docs # <<>>
                    /\ ~WrongReturnDocs(fs[i])
                    /\ ArgumentsDocumented(toks, starts[i], fs[i])

----------------------------------------------------------------------------
(* The stage of format that fails on the text read *)
LayoutFails == ~ReturnSimple(st).ok

LexerFails == ReturnSimple(st).ok /\ ~token_parser(st.output).ok

RulesOf(text) == check_complex_rules(config, complex_token_parser(TokensOf(text)))

RulesFail == ReturnSimple(st).ok /\ token_parser(st.output).ok /\ ~RulesOf(st.output).ok

StartsWithMarker(msg) ==
    Len(msg) >= 2 /\ msg[1] = Lit(CHANGES_REQUIRED_ERR_MSG) /\ msg[2] = Lit(": ")

(* C13: when the text read breaks a rule that asks for manual changes (a
   case, prefix or documentation rule, an unmatched NOLINTBEGIN, an unmatched
   NOFORMATBEGIN), format fails and its message starts with the marker
   `changes required`. *)
MarkerOnManualChanges ==
    (pc = "done" /\ content # <<>> /\ (LayoutFails \/ RulesFail)) =>
        ~result.ok /\ StartsWithMarker(result.msg)

MarkerWitness ==
    /\ pc = "done"
    /\ LayoutFails
    /\ result = Err(<<Lit(CHANGES_REQUIRED_ERR_MSG), Lit(": ")>> \o NoFormatError)

(* C14 as stated: an error of format starts with the marker only when it is
   a violation of a semantic rule; an error of the lexer or of the layout
   rules never does. *)
MarkerOnlySemantic ==
    (pc = "done" /\ ~result.ok) => (StartsWithMarker(result.msg) <=> RulesFail)

(* C14, amended: an error of format starts with the marker exactly when it
   comes from the layout rules (unmatched NOFORMATBEGIN) or from the checker;
   an error of the lexer never does. *)
MarkerIffLayoutOrRules ==
    (pc = "done" /\ ~result.ok) =>
        /\ StartsWithMarker(result.msg) <=> (LayoutFails \/ RulesFail)
        /\ LexerFails => result.msg[1] = Lit("token parser error at line ")

MarkerAbsentWitness ==
    pc = "done" /\ ~result.ok /\ LexerFails /\ ~StartsWithMarker(result.msg)

(* C15: on a text that is not empty the stages run in the order layout
   rules, lexer, structural parser, checker: the error returned is that of
   the first stage that fails, whatever the later stages would say, and when
   none fails the text returned is the output of the layout rules. *)
StagesInOrder ==
    (pc = "done" /\ content # <<>>) =>
        /\ LayoutFails =>
              result = Err(<<Lit(CHANGES_REQUIRED_ERR_MSG), Lit(": ")>> \o NoFormatError)
        /\ LexerFails =>
              ~result.ok /\ result.msg[1] = Lit("token parser error at line ")
        /\ RulesFail =>
              result = Err(<<Lit(CHANGES_REQUIRED_ERR_MSG), Lit(": ")>> \o RulesOf(st.output).msg)
        /\ result.ok <=> ~(LayoutFails \/ LexerFails \/ RulesFail)
        /\ result.ok => result.text = st.output

(* The layout rules fail on a text whose declarations the checker would reject *)
StagesWitness ==
    /\ pc = "done"
    /\ LayoutFails
    /\ ~RulesOf(st.output).ok
    /\ ~result.ok

----------------------------------------------------------------------------
(* The NOLINT regions of a token sequence *)
IsLintComment(toks, k, word) ==
    toks[k].kind = "Comment" /\ starts_with(toks[k].text, word)

(* Token k lies after a NOLINTBEGIN comment with no NOLINTEND comment between *)
InsideNolint(toks, k) ==
    \E b \in 1..(k - 1) :
        /\ IsLintComment(toks, b, <<"N", "O", "L", "I", "N", "T", "B", "E", "G", "I", "N">>)
        /\ \A e \in (b + 1)..(k - 1) : ~IsLintComment(toks, e, <<"N", "O", "L", "I", "N", "T", "E", "N", "D">>)

(* The name a message of the checker is about *)
ReportedName(msg) == msg[4].arg

NolintStruct == <<"/", "/", " ", "N", "O", "L", "I", "N", "T", "B", "E", "G", "I", "N", "\n", "s", "t", "r", "u", "c", "t", " ", "m", "y", "_", "s", " ", "{", "\n", "i", "n", "t", " ", "a", ";", "\n", "}", ";", "\n", "/", "/", " ", "N", "O", "L", "I", "N", "T", "E", "N", "D", "\n">>

(* C20: a violation of a semantic rule is reported only for a declaration
   that is not between a NOLINTBEGIN comment and the next NOLINTEND comment,
   whatever kind of declaration follows the NOLINTBEGIN comment. *)
NolintRegionSilent ==
    (pc = "done" /\ RulesFail /\ Len(result.msg) >= 4) =>
        LET toks == TokensOf(st.output)
        IN  \E k \in 1..Len(toks) :
                /\ toks[k].kind = "Ident"
                /\ toks[k].text = ReportedName(result.msg)
                /\ ~InsideNolint(toks, k)

----------------------------------------------------------------------------
(* Every line break of the text is the string ending: a line feed is the last
   character of an occurrence of it, and a carriage return is part of one *)
BreaksAre(text, ending) ==
    \A i \in 1..Len(text) :
        /\ text[i] = "\n" => MatchAt(text, i - Len(ending) + 1, ending)
        /\ text[i] = "\r" => (ending = <<"\r", "\n">> /\ MatchAt(text, i, ending))

(* C19: every line break of the text returned is the configured line ending:
   the forced one when ForceLineEnding is set, the one of the platform
   otherwise, whatever the line breaks of the input were. *)
ForcedLineEnding ==
    (pc = "done" /\ result.ok) =>
        BreaksAre(result.text,
                  IF config.force_line_ending = None THEN LINE_ENDING
                  ELSE config.force_line_ending.value)

----------------------------------------------------------------------------
(* C16: main creates (and so overwrites) a file only after format returned
   Ok for the content of that file, so that a file format fails on keeps its
   content; when format fails on a file, that file and all files after it
   are as they were; and with --only-scan no file is created or changed. *)
WriteOnlyAfterSuccess ==
    pc = "main" =>
        /\ \A i \in 1..Len(run.files) :
              /\ i \in run.created => format(config, run.start[i]).ok
              /\ i \notin run.created => run.files[i] = run.start[i]
              /\ ~format(config, run.start[i]).ok => run.files[i] = run.start[i]
        /\ run.cause = "format" =>
              \A i \in run.next..Len(run.files) :
                  i \notin run.created /\ run.files[i] = run.start[i]
        /\ run.only_scan => run.created = {} /\ run.files = run.start

(* The first file was rewritten, format failed on the second one *)
WriteWitness ==
    /\ pc = "main"
    /\ ~run.only_scan
    /\ run.status = FAILURE
    /\ run.cause = "format"
    /\ run.next = 2
    /\ 1 \in run.created
    /\ run.files[1] # run.start[1]
    /\ run.files[2] = run.start[2]

(* C17 as stated: with --only-scan, the exit status of a run that ends on an
   error of format is not the one of a run that ends on "formatting is
   needed", which is FAILURE. *)
PipelineErrorStatusDistinct ==
    (pc = "main" /\ run.only_scan /\ run.cause = "format") => run.status # FAILURE

(* C17, amended: with --only-scan, a run that ends on an error of format and
   a run that ends on "formatting is needed" both return FAILURE, and a run
   returns SUCCESS only when neither happened on any file. *)
ScanFailureStatus ==
    (pc = "main" /\ run.only_scan /\ run.status # "running") =>
        /\ run.cause \in {"format", "diff"} => run.status = FAILURE
        /\ run.status = SUCCESS <=> run.cause = "none"
        /\ (\E i \in 1..Len(run.files) : ~format(config, run.files[i]).ok) =>
              run.status = FAILURE

ScanErrorWitness ==
    /\ pc = "main"
    /\ run.only_scan
    /\ run.cause = "format"
    /\ run.status = FAILURE
    /\ run.next = 2

----------------------------------------------------------------------------
(* Declarations and braces of a sequence of complex tokens *)
ComplexOf(text) == complex_token_parser(TokensOf(text))

IsBrace(ct, b) == ct.kind = "Other" /\ ct.token.kind = "Ctrl" /\ ct.token.text = <<b>>

(* Opening braces less closing braces among the tokens j..k *)
NetBraces(cts, j, k) ==
    Cardinality({p \in j..k : IsBrace(cts[p], "{")})
        - Cardinality({p \in j..k : IsBrace(cts[p], "}")})

(* The number of braces open before token i, a closing brace with none open
   counting for nothing: the greatest net count of a range that ends at i - 1.
   The braces of a struct are part of its token. *)
BraceDepth(cts, i) ==
    LET nets == {NetBraces(cts, j, i - 1) : j \in 1..i}
    IN  CHOOSE m \in nets : \A x \in nets : x <= m

(* Token i is a variable declared at file level *)
FileLevelVariable(cts, i) ==
    cts[i].kind = "VariableDeclaration" /\ BraceDepth(cts, i) = 0

(* The locals of check_complex_rules when its loop comes to token i, and
   whether it comes to it *)
StateBefore(cts, i) ==
    IF i = 1 THEN [res |-> Ok(<<>>), c |-> InitCheck]
    ELSE CheckRange(config, cts, 1, i - 1, [res |-> Ok(<<>>), c |-> InitCheck])

GlobalPrefix == config.global_variable_prefix.value

WithoutGlobalPrefix(name) == SubSeq(name, Len(GlobalPrefix) + 1, Len(name))

IsGlobalPrefixMessage(msg) ==
    Len(msg) >= 5
    /\ msg[5].lit = "\" has incorrect prefix because it's a global variable, the correct name is probably \""

PrototypeThenVariable == <<"v", "o", "i", "d", " ", "f", "(", ")", ";", "\n", "i", "n", "t", " ", "i", "A", ";", "\n">>

(* C21: with a global prefix configured, a text is accepted only if every
   variable declared at file level starts with the prefix and its name
   without the prefix satisfies the case rule and the int prefix rule; and
   the missing global prefix is reported only for a variable declared at
   file level, never for a field, an argument or a variable of a function
   body. *)
GlobalPrefixRule ==
    (pc = "done" /\ ReturnSimple(st).ok) =>
        LET cts == ComplexOf(st.output)
            file_level == {i \in 1..Len(cts) : FileLevelVariable(cts, i)}
        IN  /\ result.ok =>
                  \A i \in file_level :
                      /\ starts_with(cts[i].name, GlobalPrefix)
                      /\ check_case(WithoutGlobalPrefix(cts[i].name), config.variable_case).ok
                      /\ cts[i].type = "Integer" =>
                            starts_with(WithoutGlobalPrefix(cts[i].name), config.int_prefix.value)
            /\ (~result.ok /\ IsGlobalPrefixMessage(result.msg)) =>
                  \E i \in file_level : cts[i].name = ReportedName(result.msg)

(* C24: when the checker comes to a variable declaration, its scope flag is
   global exactly when the declaration lies at file level, outside the braces
   of every function body and struct. *)
ScopeFlagTracksBraces ==
    (pc = "done" /\ result.ok) =>
        LET cts == ComplexOf(st.output)
        IN  \A i \in 1..Len(cts) :
                cts[i].kind = "VariableDeclaration" =>
                    (StateBefore(cts, i).c.is_global_scope <=> BraceDepth(cts, i) = 0)

----------------------------------------------------------------------------
UnderflowMessage == <<Lit("found '}' but scope nesting counter is already zero")>>

(* The loop of check_complex_rules comes to token i, a closing brace, with
   its counter at zero *)
ClosingAtZero(cts, i) ==
    /\ IsBrace(cts[i], "}")
    /\ StateBefore(cts, i).res.ok
    /\ StateBefore(cts, i).c.scope_nesting_count = 0

(* C25 as stated: whenever the checker comes to a closing brace with its
   scope-nesting counter at zero, format fails with the underflow error. *)
UnderflowAlwaysReported ==
    (pc = "done" /\ ReturnSimple(st).ok) =>
        LET cts == ComplexOf(st.output)
        IN  \A i \in 1..Len(cts) :
                ClosingAtZero(cts, i) =>
                    result = Err(<<Lit(CHANGES_REQUIRED_ERR_MSG), Lit(": ")>> \o UnderflowMessage)

(* C25, amended: whenever the checker comes to a closing brace with its
   counter at zero while its scope flag is local, format fails with the
   underflow error; while the flag is global braces are not counted and the
   closing brace is passed over, so the error is returned in no other case. *)
UnderflowReportedInLocalScope ==
    (pc = "done" /\ ReturnSimple(st).ok) =>
        LET cts == ComplexOf(st.output)
            local == {i \in 1..Len(cts) :
                        ClosingAtZero(cts, i) /\ ~StateBefore(cts, i).c.is_global_scope}
        IN  local # {} <=>
                result = Err(<<Lit(CHANGES_REQUIRED_ERR_MSG), Lit(": ")>> \o UnderflowMessage)

UnderflowWitness ==
    /\ pc = "done"
    /\ result = Err(<<Lit(CHANGES_REQUIRED_ERR_MSG), Lit(": ")>> \o UnderflowMessage)

(* The rule a variable breaks first, in the order of check_variable_name *)
FirstBrokenRule(name, type, global) ==
    LET bare == IF global THEN WithoutGlobalPrefix(name) ELSE name
    IN  IF global /\ ~starts_with(name, GlobalPrefix) THEN "global prefix"
        ELSE IF ~check_case(bare, config.variable_case).ok THEN "case"
        ELSE IF type = "Integer" /\ ~starts_with(bare, config.int_prefix.value) THEN "prefix"
        ELSE "none"

RuleOfMessage(msg) ==
    IF IsGlobalPrefixMessage(msg) THEN "global prefix"
    ELSE IF Len(msg) >= 5 /\ msg[5].lit = "\" has incorrect case, the correct case is \"" THEN "case"
    ELSE IF Len(msg) >= 5 /\ msg[5].lit = "\" has incorrect prefix, the correct prefix is \"" THEN "prefix"
    ELSE "other"

(* The first token on which the loop of check_complex_rules returns an error *)
IsFirstViolation(cts, i) ==
    /\ StateBefore(cts, i).res.ok
    /\ ~check_token(config, StateBefore(cts, i).c, cts[i]).res.ok

(* C27: when the checker fails, the error is the one of the first declaration
   in source order that breaks a rule, whatever declarations follow it; when
   that declaration is a variable, the rule reported is the first it breaks
   in the order global prefix, case, int prefix. *)
FirstViolationReported ==
    (pc = "done" /\ RulesFail) =>
        LET cts == ComplexOf(st.output)
        IN  \E i \in 1..Len(cts) :
                /\ IsFirstViolation(cts, i)
                /\ \A j \in 1..Len(cts) : IsFirstViolation(cts, j) => j = i
                /\ result = Err(<<Lit(CHANGES_REQUIRED_ERR_MSG), Lit(": ")>>
                                \o check_token(config, StateBefore(cts, i).c, cts[i]).res.msg)
                /\ cts[i].kind = "VariableDeclaration" =>
                      /\ ReportedName(result.msg)
                            = (IF RuleOfMessage(result.msg) = "global prefix"
                                  \/ ~StateBefore(cts, i).c.is_global_scope
                               THEN cts[i].name ELSE WithoutGlobalPrefix(cts[i].name))
                      /\ RuleOfMessage(result.msg)
                            = FirstBrokenRule(cts[i].name, cts[i].type,
                                              StateBefore(cts, i).c.is_global_scope)

(* A variable that breaks the case rule and the int prefix rule is reported
   for its case, and the declarations after it are not reported *)
FirstViolationWitness ==
    /\ pc = "done"
    /\ RulesFail
    /\ RuleOfMessage(result.msg) = "case"
    /\ ReportedName(result.msg) = <<"I", "_", "a">>
    /\ Len(ComplexOf(st.output)) >= 6

----------------------------------------------------------------------------
(* Structs and fields of a token sequence *)
IsCtrl(toks, k, c) == toks[k].kind = "Ctrl" /\ toks[k].text = <<c>>

(* Token k is the word struct *)
IsStructWord(toks, k) == toks[k].kind = "Ident" /\ toks[k].text = <<"s", "t", "r", "u", "c", "t">>

(* Token k is the type of a field: a type between the braces of a struct *)
IsFieldType(toks, k) ==
    /\ toks[k].kind = "TypeName"
    /\ \E s \in 1..(k - 1) :
          /\ IsStructWord(toks, s)
          /\ \A e \in s..(k - 1) : ~IsCtrl(toks, e, "}")

CommentBefore(toks, k) == k > 1 /\ toks[k - 1].kind = "Comment"

(* C23: with documentation required on structs a text is rejected when a
   struct has no comment directly before it; with documentation required on
   fields, when a field has none; a field is checked with the variable rules
   as a variable that is not global, so that it needs the int prefix and not
   the global prefix; and a text that breaks none of these is accepted. *)
StructDocsRule ==
    (pc = "done" /\ ReturnSimple(st).ok) =>
        LET toks == TokensOf(st.output)
            structs == {k \in 1..Len(toks) : IsStructWord(toks, k)}
            fields == {k \in 1..Len(toks) : IsFieldType(toks, k)}
        IN  result.ok <=>
                /\ config.require_docs_on_structs => \A k \in structs : CommentBefore(toks, k)
                /\ config.require_docs_on_fields => \A k \in fields : CommentBefore(toks, k)
                /\ \A k \in fields : starts_with(toks[k + 1].text, config.int_prefix.value)

(* A struct with a comment before it and before its field is accepted with
   both requirements, its field not having the global prefix *)
StructDocsWitness ==
    /\ pc = "done"
    /\ result.ok
    /\ config.require_docs_on_structs
    /\ config.require_docs_on_fields
    /\ \E k \in 1..Len(TokensOf(st.output)) : IsFieldType(TokensOf(st.output), k)

----------------------------------------------------------------------------
(* The declarations of scalar type of a token sequence *)
ScalarPrefix(type) ==
    CASE type = "Bool" -> config.bool_prefix
      [] type = "Integer" -> config.int_prefix
      [] type = "Float" -> config.float_prefix
      [] OTHER -> None

IsScalarType(toks, t) ==
    toks[t].kind = "TypeName" /\ toks[t].type \in {"Bool", "Integer", "Float"}

(* Token k is the name of a variable, field or argument declared with the
   type at token t: the name after the type, unless it is an array, or a
   further name of the same declaration *)
DeclaresAt(toks, t, k) ==
    /\ toks[k].kind = "Ident"
    /\ k < Len(toks)
    /\ \/ k = t + 1 /\ ~IsCtrl(toks, k + 1, "[")
       \/ /\ k > t + 1
          /\ IsCtrl(toks, k - 1, ",")
          /\ IsCtrl(toks, k + 1, ",") \/ IsCtrl(toks, k + 1, ";")
          /\ \A e \in t..k : ~IsCtrl(toks, e, ";") /\ ~IsCtrl(toks, e, ")")

TwoNames == <<"i", "n", "t", " ", "i", "A", ",", " ", "a", ";", "\n">>

(* C22: with a bool, an int and a float prefix configured, a text is
   accepted exactly when every variable, field and argument of one of these
   types starts with the prefix of its type, with or without a case rule;
   names declared with another type need no prefix. *)
ScalarPrefixRule ==
    (pc = "done" /\ ReturnSimple(st).ok) =>
        LET toks == TokensOf(st.output)
        IN  result.ok <=>
                \A t \in 1..Len(toks) : \A k \in t..Len(toks) :
                    (IsScalarType(toks, t) /\ DeclaresAt(toks, t, k)) =>
                        starts_with(toks[k].text, ScalarPrefix(toks[t].type).value)

----------------------------------------------------------------------------
(* The position of the first `//` of a line, 0 when it has none *)
CommentStart(line) ==
    LET starts == {p \in 1..Len(line) : MatchAt(line, p, <<"/", "/">>)}
    IN  IF starts = {} THEN 0 ELSE CHOOSE p \in starts : \A q \in starts : p <= q

(* C28: with the rule After, when a `{` is read as code after a line of code
   that ends with a `//` comment, whatever whitespace and line breaks lie
   between, the output is the text before the comment, one space, the brace,
   one space and the comment, then a line break at the next depth; when the
   line before holds only a `//` comment, the brace is written on a line of
   its own after it. *)
BraceBeforeComment ==
    [][ ( /\ Reads("{")
          /\ config.new_line_around_braces = "After"
          /\ ReadsAsCode(st, "{")
          /\ ~AfterBackslashLine(st)
          /\ CommentStart(LineBefore(StripTrailing(st.output, BlankOrBreak))) > 0 )
        => LET text == StripTrailing(st.output, BlankOrBreak)
               line == LineBefore(text)
               p == CommentStart(line)
               code == StripTrailing(SubSeq(line, 1, p - 1), Blank)
               head == SubSeq(text, 1, Len(text) - Len(line))
               after == LINE_ENDING \o Indent(config, st.nesting_count + 1)
           IN  IF code = <<>>
               THEN st'.output = text \o LINE_ENDING \o Indent(config, st.nesting_count)
                                      \o <<"{">> \o after
               ELSE st'.output = head \o code \o <<" ", "{", " ">>
                                      \o SubSeq(line, p, Len(line)) \o after ]_vars

----------------------------------------------------------------------------
(* Every line of the text but its last ends with a backslash, blanks after
   the backslash apart *)
Continued(text) ==
    \A i \in 1..Len(text) :
       text[i] = "\n" => EndsWith(StripTrailing(SubSeq(text, 1, i - 1), Blank), <<"\\">>)

(* C30: a text of several lines without comments and closing braces, every
   line of which but the last ends with a backslash and which holds an
   opening brace, is
   formatted to a text every line of which but the last ends with a
   backslash. *)
MacroStaysContinued ==
    (/\ pc = "done"
     /\ Continued(content)
     /\ {"{", "\n"} \subseteq CharsOf(content)
     /\ CharsOf(content) \cap {"/", "}"} = {}) => Continued(st.output)

----------------------------------------------------------------------------
(* The line comments of a text in order: of every line that holds "//", the
   part from the first "//" to the end of the line, trailing blanks apart *)
CommentsOf(text) ==
    LET lines == LinesOf(text)
        with == {n \in DOMAIN lines : CommentStart(lines[n]) > 0}
        nth(k) == CHOOSE n \in with : Cardinality({m \in with : m < n}) = k - 1
        tail(line) == StripTrailing(SubSeq(line, CommentStart(line), Len(line)), Blank)
    IN  [k \in 1..Cardinality(with) |-> tail(lines[nth(k)])]

(* C29: the formatted text has the line comments of the input, each with the
   text it had: no character that stood outside a comment is inside one
   afterwards. *)
CommentsKeepTheirText ==
    pc = "done" => CommentsOf(st.output) = CommentsOf(content)

----------------------------------------------------------------------------
Opening == {"{", "(", "["}

Closing == {"}", ")", "]"}

Closes(a, b) == <<a, b>> \in {<<"{", "}">>, <<"(", ")">>, <<"[", "]">>}

(* `seq` is a balanced sequence of brackets: empty, or a pair around a
   balanced sequence followed by a balanced sequence *)
RECURSIVE Balanced(_)
Balanced(seq) ==
    \/ seq = <<>>
    \/ /\ Len(seq) >= 2
       /\ seq[1] \in Opening
       /\ \E k \in 2..Len(seq) :
             /\ Closes(seq[1], seq[k])
             /\ Balanced(SubSeq(seq, 2, k - 1))
             /\ Balanced(SubSeq(seq, k + 1, Len(seq)))

(* The locals of apply_simple_rules after the first j characters of the text read *)
LocalsAfter(j) == RunLoop(config, InitLocals, SubSeq(content, 1, j), 1)

ClosingWords == { <<c>> : c \in Closing } \cup { <<"#", "e", "l", "s", "e">>, <<"#", "e", "l", "i", "f">>, <<"#", "e", "n", "d", "i", "f">> }

(* The brackets of `seq`, in order *)
BracketsOf(seq) == SelectSeq(seq, LAMBDA c : c \in Opening \cup Closing)

(* C26: the nesting counter is never negative; when the text read ends with
   a closing brace, a closing bracket, #else, #elif or #endif that was met
   with the counter at zero, the counter is zero; and when the text read ends
   with a sequence of balanced brackets, with letters and line breaks between
   them, that started outside comments and NOFORMAT regions and with no
   directive nesting pending, the counter has the value it had before the
   sequence. *)
NestingNeverUnderflows ==
    /\ st.nesting_count >= 0
    /\ pc = "loop" =>
          \A j \in 0..(Len(content) - 1) :
             LET seq == SubSeq(content, j + 1, Len(content))
                 before == LocalsAfter(j)
             IN  /\ (seq \in ClosingWords /\ before.nesting_count = 0)
                        => st.nesting_count = 0
                 /\ (/\ seq[1] \in Opening
                     /\ CharsOf(seq) \subseteq Opening \cup Closing \cup {"a", "\n"}
                     /\ Balanced(BracketsOf(seq))
                     /\ ReadsAsCode(before, seq[1])
                     /\ ~before.preproc_add_nesting_on_next_line)
                        => st.nesting_count = before.nesting_count

(* A closing bracket and a closing directive have been read at depth zero, or
   a pair of brackets has been read at depth one *)
NestingWitness ==
    /\ pc = "loop"
    /\ config.preprocessor_if_creates_nesting
    /\ \/ content = <<"]", "#", "e", "l", "s", "e">> /\ st.nesting_count = 0
       \/ content = <<"{", "[", "a", "]">> /\ st.nesting_count = 1

----------------------------------------------------------------------------
(* The first character of the last line of `text` that is no blank, "" when
   the line has none *)
FirstOfLine(text) ==
    LET line == LineBefore(text)
        at == {p \in 1..Len(line) : line[p] \notin Blank}
    IN  IF at = {} THEN "" ELSE line[CHOOSE p \in at : \A q \in at : p <= q]

(* C31: a step that reads a `}` outside comments and NOFORMAT regions removes
   the whitespace and line breaks at the end of the output and writes a line
   break, the indentation of the nesting depth less one and the brace; when
   the line the output is at began with `#` it writes one space and the
   brace instead. *)
ClosingBraceOnOwnLine ==
    [][ (ReadsWord(<<"}">>) /\ ReadsAsCode(st, "}"))
           => LET kept == StripTrailing(st.output, BlankOrBreak)
                  depth == saturating_sub(st.nesting_count, 1)
              IN  /\ st'.nesting_count = depth
                  /\ st'.output =
                        IF FirstOfLine(st.output) = "#"
                        THEN kept \o <<" ", "}">>
                        ELSE kept \o LINE_ENDING \o Indent(config, depth) \o <<"}">> ]_vars

----------------------------------------------------------------------------
(* The character of `text` at position i, "" outside the text *)
At(text, i) == IF i \in 1..Len(text) THEN text[i] ELSE ""

(* C32: in the output of a text without comments, with spaces_in_brackets an
   opening bracket is followed by a closing bracket or by exactly one space,
   and a closing bracket is preceded by an opening bracket or by exactly one
   space; without it no blank follows an opening bracket and none precedes a
   closing one. *)
BracketSpacing ==
    "/" \notin CharsOf(content) =>
    \A i \in 1..Len(st.output) :
       LET out == st.output
           opens == out[i] \in {"(", "["}
           closes == out[i] \in {")", "]"}
       IN  IF config.spaces_in_brackets
           THEN /\ (opens /\ i < Len(out)) =>
                      \/ out[i + 1] \in {")", "]"}
                      \/ out[i + 1] = " " /\ At(out, i + 2) \notin Blank \cup {")", "]"}
                /\ (closes /\ i > 1) =>
                      \/ out[i - 1] \in {"(", "["}
                      \/ out[i - 1] = " " /\ At(out, i - 2) \notin BlankOrBreak \cup {"(", "["}
           ELSE /\ opens => At(out, i + 1) \notin Blank
                /\ closes => At(out, i - 1) \notin Blank

----------------------------------------------------------------------------
(* C33: a line break read either writes nothing or writes a line break and
   the indentation unit as many times as the nesting depth; a blank read at
   the start of an input line writes nothing; and in a text without comments
   the nesting depth is the number of braces and brackets open in the text
   read, closing ones at depth zero not counted. *)
IndentFromNesting ==
    [][ /\ Reads("\n") =>
              \/ st'.output = st.output
              \/ st'.output = st.output \o LINE_ENDING \o Indent(config, st'.nesting_count)
        /\ (Reads(" ") /\ CharsOf(LineBefore(content)) \subseteq Blank) =>
              st'.output = st.output
        /\ (pc' = "loop" /\ "/" \notin CharsOf(content')) =>
              st'.nesting_count = DepthBefore(content', Len(content') + 1) ]_vars

(* A line break has been read after an open brace and an open bracket: the new
   line is indented twice *)
IndentWitness ==
    /\ pc = "loop"
    /\ content = <<"{", "(", "\n", " ">>
    /\ st.nesting_count = 2
    /\ EndsWith(st.output, <<"(", "\n">> \o Indent(config, 2))

----------------------------------------------------------------------------
Directives == { <<"#", "i", "f">>, <<"#", "e", "l", "s", "e">>, <<"#", "e", "n", "d", "i", "f">> }

(* The text read ends with a line that holds blanks only *)
AtLineStart == CharsOf(LineBefore(content)) \subseteq Blank

(* C34: a directive read at the start of an input line stands on an output
   line of its own, after no indentation when indent_preprocessor is off and
   after the indentation of the nesting depth when it is on; a `=` read at the
   start of an input line stands on an output line of its own after the
   indentation of the nesting depth and one unit more, and the nesting depth
   stays as it is. *)
LineStartExceptions ==
    [][ /\ \A w \in Directives :
              (ReadsWord(w) /\ AtLineStart) =>
                  LineBefore(st'.output) =
                      (IF config.indent_preprocessor
                       THEN Indent(config, st'.nesting_count) ELSE <<>>) \o w
        /\ (ReadsWord(<<"=">>) /\ AtLineStart) =>
              /\ LineBefore(st'.output) = Indent(config, st.nesting_count + 1) \o <<"=">>
              /\ st'.nesting_count = st.nesting_count ]_vars

----------------------------------------------------------------------------
(* `line` without the blanks it starts with *)
StripLeading(line) ==
    SubSeq(line, CHOOSE k \in 1..(Len(line) + 1) :
                     /\ k > Len(line) \/ line[k] \notin Blank
                     /\ \A j \in 1..(k - 1) : line[j] \in Blank, Len(line))

OpensIf(line) == MatchAt(StripLeading(line), 1, <<"#", "i", "f">>)

ContinuesIf(line) ==
    MatchAt(StripLeading(line), 1, <<"#", "e", "l", "s", "e">>) \/ MatchAt(StripLeading(line), 1, <<"#", "e", "l", "i", "f">>)

ClosesIf(line) == MatchAt(StripLeading(line), 1, <<"#", "e", "n", "d", "i", "f">>)

(* The depth of #if blocks after the first n of `lines`, counted on the lines *)
RECURSIVE IfDepth(_, _)
IfDepth(lines, n) ==
    IF n = 0 THEN 0
    ELSE LET d == IfDepth(lines, n - 1)
         IN  IF OpensIf(lines[n]) THEN d + 1
             ELSE IF ContinuesIf(lines[n]) THEN saturating_sub(d, 1) + 1
             ELSE IF ClosesIf(lines[n]) THEN saturating_sub(d, 1)
             ELSE d

(* The depth line n of `lines` is written at *)
IfLevel(lines, n) ==
    IF ContinuesIf(lines[n]) \/ ClosesIf(lines[n])
    THEN saturating_sub(IfDepth(lines, n - 1), 1)
    ELSE IfDepth(lines, n - 1)

(* The text is made of whole lines of directives and of letters, none empty *)
IfLines ==
    /\ pc = "loop"
    /\ CharsOf(content) \subseteq {"#", " ", "\n"} \cup Letters
    /\ content # <<>> /\ Last(content) = "\n"
    /\ \A n \in 1..LineCount(content) : StripLeading(LineOf(content, n)) # <<>>

(* C35: in a text of whole lines without braces and brackets, with
   indent_preprocessor on, every line is written after the indentation of the
   depth of the #if blocks it is in, #else, #elif and #endif at the depth of
   their #if, and the nesting depth after the text is the depth of the blocks
   left open, when preprocessor_if_creates_nesting is on; when it is off
   every line is written without indentation and the nesting depth is zero. *)
IfBlockIndentation ==
    (IfLines /\ config.indent_preprocessor) =>
        LET lines == LinesOf(content)
            written == LinesOf(st.output)
            depth(n) == IF config.preprocessor_if_creates_nesting
                        THEN IfLevel(lines, n) ELSE 0
        IN  /\ \A n \in 1..Len(lines) :
                  /\ n <= Len(written)
                  /\ written[n] = Indent(config, depth(n)) \o StripLeading(lines[n])
            /\ st.nesting_count = IF config.preprocessor_if_creates_nesting
                                  THEN IfDepth(lines, Len(lines)) ELSE 0

(* A block with an #else has been read: its two branches are written one unit
   deep, the directives at depth zero, and the depth is zero again *)
IfBlockWitness ==
    /\ pc = "loop"
    /\ config.preprocessor_if_creates_nesting
    /\ content = <<"#", "i", "f", "d", "e", "f", "\n", "a", "\n", "#", "e", "l", "s", "e", "\n", "#", "e", "n", "d", "i", "f", "\n">>
    /\ st.output = <<"#", "i", "f", "d", "e", "f", "\n", " ", " ", " ", " ", "a", "\n", "#", "e", "l", "s", "e", "\n", "#", "e", "n", "d", "i", "f", "\n">>
    /\ st.nesting_count = 0

----------------------------------------------------------------------------
(* C36: a step that starts and ends inside a block comment leaves the nesting
   depth as it is, and adds a line break to the output only when it reads
   one. *)
BlockCommentFrozen ==
    [][ (/\ pc = "loop" /\ pc' = "loop"
         /\ st.inside_c_comment_count > 0 /\ st'.inside_c_comment_count > 0)
           => /\ st'.nesting_count = st.nesting_count
              /\ ~Reads("\n") => Count(st'.output, "\n") = Count(st.output, "\n") ]_vars

----------------------------------------------------------------------------
(* C37: a line of the output that a line break ends and that holds no text
   holds no blank either. *)
EmptyLinesBare ==
    \A i \in LineBreaks(st.output) :
       LET line == LineBefore(SubSeq(st.output, 1, i - 1))
       IN  CharsOf(line) \subseteq Blank => line = <<>>

----------------------------------------------------------------------------
(* C39: format never panics, and when the formatted text holds an integer
   literal outside the range of i64 it returns the error of the token parser,
   with the line and the column. *)
OverflowIsLexerError ==
    /\ pc # "panic"
    /\ (pc = "done" /\ ReturnSimple(st).ok /\ token_parser_panics(st.output)) =>
          /\ ~result.ok
          /\ Len(result.msg) >= 1 /\ result.msg[1] = Lit("token parser error at line ")

----------------------------------------------------------------------------
(* The lines of the texts of declarations and NOLINT comments: a declaration
   of a variable whose name is not in camel case, the comment, and the first
   line of a struct *)
MisnamedDecl == <<"i", "n", "t", " ", "M", "y", "_", "V", "a", "r", ";">>

NolintComment == <<"/", "/", " ", "N", "O", "L", "I", "N", "T">>

StructHead == <<"s", "t", "r", "u", "c", "t", " ", "S", " ", "{">>

NolintTexts ==
    /\ pc = "done"
    /\ config.variable_case = "Camel"
    /\ NolintComment \o LINE_ENDING \in alphabet

Misnamed(n) == starts_with(LineOf(content, n), MisnamedDecl)

(* The comments after the declaration of line n are the documentation of a
   struct: the parser of structs takes them, they are no tokens of their own *)
DocsOfStruct(n) ==
    \E m \in (n + 1)..LineCount(content) :
        /\ LineOf(content, m) = StructHead
        /\ \A j \in (n + 1)..(m - 1) : LineOf(content, j) = NolintComment

(* The token after the declaration of line n is a NOLINT comment *)
NolintAfter(n) ==
    /\ \/ EndsWith(LineOf(content, n), NolintComment)
       \/ n < LineCount(content) /\ LineOf(content, n + 1) = NolintComment
    /\ ~DocsOfStruct(n)

(* The token before the declaration of line n is a NOLINT comment *)
NolintBefore(n) == n > 1 /\ EndsWith(LineOf(content, n - 1), NolintComment)

(* C38 as amended: a NOLINT comment exempts the single declaration that
   directly precedes it, and no other declaration. With the case rule for
   variables on, format accepts a text exactly when each declaration of a
   misnamed variable is directly followed by a NOLINT comment that is a token
   of its own, on the same line or on the next. *)
NolintExemptsPreceding ==
    NolintTexts =>
        (result.ok <=> \A n \in 1..LineCount(content) : Misnamed(n) => NolintAfter(n))

NolintPrecedingWitness ==
    /\ NolintTexts
    /\ content = <<"i", "n", "t", " ", "o", "k", ";", "\n", "i", "n", "t", " ", "M", "y", "_", "V", "a", "r", ";", " ", "/", "/", " ", "N", "O", "L", "I", "N", "T", "\n">>
    /\ result.ok

(* C38: a NOLINT comment exempts the single declaration that follows it, and
   no other declaration. With the case rule for variables on, format accepts
   a text exactly when each declaration of a misnamed variable directly
   follows a NOLINT comment. *)
NolintExemptsFollowing ==
    NolintTexts =>
        (result.ok <=> \A n \in 1..LineCount(content) : Misnamed(n) => NolintBefore(n))

----------------------------------------------------------------------------
(* The lines of the comments of a NOLINT region *)
NolintBeginComment == <<"/", "/", " ", "N", "O", "L", "I", "N", "T", "B", "E", "G", "I", "N">>

NolintEndComment == <<"/", "/", " ", "N", "O", "L", "I", "N", "T", "E", "N", "D">>

RegionTexts ==
    /\ pc = "done"
    /\ config.variable_case = "Camel"
    /\ NolintBeginComment \o LINE_ENDING \in alphabet

(* Line n is a NOLINTBEGIN comment that no NOLINTEND comment follows *)
UnmatchedBegin(n) ==
    /\ LineOf(content, n) = NolintBeginComment
    /\ \A m \in (n + 1)..LineCount(content) : LineOf(content, m) # NolintEndComment

NoBegin == \A n \in 1..LineCount(content) : LineOf(content, n) # NolintBeginComment

(* C40: a text with a NOLINTBEGIN comment that no NOLINTEND comment follows
   is rejected, whether it breaks a rule or not; and in a text without
   NOLINTBEGIN the NOLINTEND comments change nothing: the text is rejected
   exactly when it declares a misnamed variable. *)
UnmatchedNolintBegin ==
    RegionTexts =>
        /\ (\E n \in 1..LineCount(content) : UnmatchedBegin(n)) => ~result.ok
        /\ NoBegin => (~result.ok <=> \E n \in 1..LineCount(content) : Misnamed(n))

=============================================================================
